---- MODULE Spec2Model ----
(***************************************************************************)
(* git-relay-server: the chunked session pipeline (SessionStore), the      *)
(* routes that drive it (data, gr, file), the per-repo promise-chain lock  *)
(* and the TTL sweep, as one state machine.                                *)
(*                                                                         *)
(* Node runs every request handler, timer callback and promise reaction    *)
(* to completion on one thread.  A step of the model is therefore either   *)
(* one macrotask (a request handler, the completion of a git subprocess,   *)
(* the sweep timer) or one promise reaction taken from the microtask       *)
(* queue `micro`; macrotasks run only when `micro` is empty.               *)
(***************************************************************************)
EXTENDS Integers, Sequences, FiniteSets, TLC

\* ---------------------------------------------------------------- bounds
MaxChunks == 1        \* largest totalChunks a client sends to the running server
MaxTasks == 2         \* background finalize tasks ever scheduled
MaxUploadChunks == 3  \* largest totalChunks in an upload checked on its own
MaxSends == 3         \* chunk requests of an upload checked on its own

\* ------------------------------------------------------------ input sets
SessionIds == {"s1"}                 \* the sessions of the running server
LockSessionIds == {"s1", "s2", "s3"}  \* the sessions finalized when the lock is checked
AllSessionIds == SessionIds \cup LockSessionIds
Repos == {"a/b", "c/d"}              \* well-formed "owner/repo" keys
SentRepos == {"a/b"}                 \* the repo the requests to the running server name
ChunkData == {<<"x">>, <<"y">>}  \* non-empty chunk payloads
Payloads == {<<"x">>}            \* the payloads sent to the running server
EmptyBuffer == <<>>

\* ------------------------------------------------------ program constants
sessionTtlMs == 1     \* config.sessionTtlMs, in clock ticks

maxFileSizeBytes == 2 \* config.maxFileSizeBytes, in payload bytes

VARIABLES
  sessions,     \* SessionStore.sessions : sessionId -> SessionInfo
  disk,         \* /tmp/relay-sessions : sessionId -> (chunkIndex -> bytes)
  storage,      \* FILE_STORAGE_DIR : stored path -> bytes
  tasks,        \* background finalize tasks, in the order they were scheduled
  repoLocks,    \* repoLocks : repo key -> the promise (task id) last chained, 0 = none
  resolved,     \* the lock promises already resolved
  micro,        \* the microtask queue: tasks whose awaited promise has settled
  last,         \* the step just taken: operation, session, HTTP code, error, return value
  spLog,        \* per live session: results startProcessing has returned so far
  sent,         \* an upload checked on its own: the chunk requests accepted so far
  out,          \* an upload checked on its own: what reassemble returned or threw
  call,         \* a function of services/crypto checked on its own: arguments and result
  handed,       \* the last /api request: the middleware that ran, what the route was handed
  nonceLog,     \* the nonces of the v2 requests a route has been handed so far
  config,       \* AppConfig: apiKey, transportCryptoMode, encryptionKey, transportV2Key
  git           \* what the git operations have left behind: temp directories, temp
                \* refs, pushed branches, and the result of each operation that ended

\* the variables of the request pipeline in front of the routes
cryptoVars == <<call, handed, nonceLog, config>>

vars == <<sessions, disk, storage, tasks, repoLocks, resolved, micro, last, spLog,
          sent, out, cryptoVars, git>>

\* ------------------------------------------------------------ small helpers
\* Date.now().  The code reads a timestamp only as the age Now - updatedAt, so the
\* clock is kept relative: Now is fixed and the passing of time moves every
\* updatedAt back, no further than just past sessionTtlMs.
Now == 0

NoDetails == [k \in {} |-> ""]

Label(op, s, code, err, ret) ==
  [op |-> op, sid |-> s, code |-> code, err |-> err, ret |-> ret]

\* { ...details, ...patch }
Merge(details, patch) ==
  [k \in (DOMAIN details) \cup (DOMAIN patch) |->
     IF k \in DOMAIN patch THEN patch[k] ELSE details[k]]

\* Map.delete / removing a directory: the function without key k
Without(f, k) == [x \in (DOMAIN f) \ {k} |-> f[x]]

\* Map.set / writing a file
With(f, k, v) == [x \in (DOMAIN f) \cup {k} |-> IF x = k THEN v ELSE f[x]]

\* HTTP status of a RelayError code (lib/errors)
StatusCode(err) ==
  CASE err = "SESSION_NOT_FOUND" -> 404
    [] err = "SESSION_COMPLETED" -> 409
    [] err = "INCOMPLETE_CHUNKS" -> 400
    [] OTHER -> 500

\* ------------------------------------------------------------ SessionStore
\* cleanupSessionDir: rmSync(sessionDir, {recursive, force})
cleanupSessionDir(dsk, s) == Without(dsk, s)

\* statuses for which storeChunk throws SessionCompletedError
storeChunkRejects == {"processing", "pushed", "failed"}

\* a plausible slip: a chunk file that already exists is not rewritten
storeChunkKeepFirst(sess, dsk, s, i, n, d) ==
  IF s \in DOMAIN sess /\ sess[s].status \in storeChunkRejects
  THEN [err |-> "SESSION_COMPLETED", sessions |-> sess, disk |-> dsk, ret |-> 0]
  ELSE
    LET session == IF s \in DOMAIN sess THEN sess[s]
                   ELSE [totalChunks |-> n, receivedChunks |-> {},
                         status |-> "receiving", message |-> "Receiving chunks",
                         details |-> NoDetails, updatedAt |-> Now]
        dir == IF s \in DOMAIN dsk THEN dsk[s] ELSE [x \in {} |-> EmptyBuffer]
        upd == [session EXCEPT !.receivedChunks = @ \cup {i}, !.updatedAt = Now]
    IN [err |-> "", sessions |-> With(sess, s, upd),
        disk |-> With(dsk, s, IF i \in DOMAIN dir THEN dir ELSE With(dir, i, d)),
        ret |-> Cardinality(upd.receivedChunks)]

\* storeChunk(sessionId, chunkIndex, totalChunks, data)
storeChunk(sess, dsk, s, i, n, d) ==
  IF s \in DOMAIN sess /\ sess[s].status \in storeChunkRejects
  THEN [err |-> "SESSION_COMPLETED", sessions |-> sess, disk |-> dsk, ret |-> 0]
  ELSE
    LET session == IF s \in DOMAIN sess THEN sess[s]
                   ELSE [totalChunks |-> n, receivedChunks |-> {},
                         status |-> "receiving", message |-> "Receiving chunks",
                         details |-> NoDetails, updatedAt |-> Now]
        dir == IF s \in DOMAIN dsk THEN dsk[s] ELSE [x \in {} |-> EmptyBuffer]
        upd == [session EXCEPT !.receivedChunks = @ \cup {i}, !.updatedAt = Now]
    IN [err |-> "", sessions |-> With(sess, s, upd),
        disk |-> With(dsk, s, With(dir, i, d)),
        ret |-> Cardinality(upd.receivedChunks)]

\* a plausible slip: the chunks are concatenated last index first
RECURSIVE ConcatChunksReversed(_, _)
ConcatChunksReversed(dir, n) ==
  IF n = 0 THEN <<>> ELSE dir[n - 1] \o ConcatChunksReversed(dir, n - 1)

\* Buffer.concat(chunks) for chunks 0..n-1 of a directory
RECURSIVE ConcatChunks(_, _)
ConcatChunks(dir, n) ==
  IF n = 0 THEN <<>> ELSE ConcatChunks(dir, n - 1) \o dir[n - 1]

\* error messages (Error.message), kept as tuples of their parts
NotFoundMsg(s) == <<"Session", s, "not found or expired">>
IncompleteMsg(expected, received) == <<"Expected", expected, "chunks, received", received>>
EnoentMsg == <<"ENOENT: no such file or directory">>
GitMsg(operation) == <<"Git", operation, "failed">>
AuthMessage == "Unsupported state or unable to authenticate data"

\* a plausible slip: the temp files are not removed after reassembly
reassembleKeepsDir(sess, dsk, s) ==
  IF s \notin DOMAIN sess
  THEN [err |-> "SESSION_NOT_FOUND", msg |-> NotFoundMsg(s), data |-> <<>>, disk |-> dsk]
  ELSE IF Cardinality(sess[s].receivedChunks) < sess[s].totalChunks
  THEN [err |-> "INCOMPLETE_CHUNKS",
        msg |-> IncompleteMsg(sess[s].totalChunks, Cardinality(sess[s].receivedChunks)),
        data |-> <<>>, disk |-> dsk]
  ELSE IF \E i \in 0 .. (sess[s].totalChunks - 1) :
            s \notin DOMAIN dsk \/ i \notin DOMAIN dsk[s]
  THEN [err |-> "ENOENT", msg |-> EnoentMsg, data |-> <<>>, disk |-> dsk]
  ELSE [err |-> "", msg |-> <<>>, data |-> ConcatChunks(dsk[s], sess[s].totalChunks),
        disk |-> dsk]

\* reassemble(sessionId)
reassemble(sess, dsk, s) ==
  IF s \notin DOMAIN sess
  THEN [err |-> "SESSION_NOT_FOUND", msg |-> NotFoundMsg(s), data |-> <<>>, disk |-> dsk]
  ELSE IF Cardinality(sess[s].receivedChunks) < sess[s].totalChunks
  THEN [err |-> "INCOMPLETE_CHUNKS",
        msg |-> IncompleteMsg(sess[s].totalChunks, Cardinality(sess[s].receivedChunks)),
        data |-> <<>>, disk |-> dsk]
  ELSE IF \E i \in 0 .. (sess[s].totalChunks - 1) :
            s \notin DOMAIN dsk \/ i \notin DOMAIN dsk[s]
  THEN [err |-> "ENOENT", msg |-> EnoentMsg, data |-> <<>>, disk |-> dsk]  \* readFileSync throws
  ELSE [err |-> "", msg |-> <<>>, data |-> ConcatChunks(dsk[s], sess[s].totalChunks),
        disk |-> cleanupSessionDir(dsk, s)]

\* a plausible slip: session.details = details, the spread of the old details forgotten
setStatusReplaces(sess, s, st, msg, det) ==
  IF s \notin DOMAIN sess
  THEN [err |-> "SESSION_NOT_FOUND", sessions |-> sess]
  ELSE [err |-> "",
        sessions |-> [sess EXCEPT ![s] =
           [@ EXCEPT !.status = st, !.message = msg, !.updatedAt = Now,
                     !.details = det]]]

\* a plausible slip: setStatus creates the entry it does not find
setStatusUpsert(sess, s, st, msg, det) ==
  LET session == IF s \in DOMAIN sess THEN sess[s]
                 ELSE [totalChunks |-> 0, receivedChunks |-> {},
                       status |-> st, message |-> msg,
                       details |-> NoDetails, updatedAt |-> Now]
  IN [err |-> "",
      sessions |-> With(sess, s,
         [session EXCEPT !.status = st, !.message = msg, !.updatedAt = Now,
                         !.details = Merge(@, det)])]

\* setStatus(sessionId, status, message, details?)
setStatus(sess, s, st, msg, det) ==
  IF s \notin DOMAIN sess
  THEN [err |-> "SESSION_NOT_FOUND", sessions |-> sess]
  ELSE [err |-> "",
        sessions |-> [sess EXCEPT ![s] =
           [@ EXCEPT !.status = st, !.message = msg, !.updatedAt = Now,
                     !.details = Merge(@, det)]]]

\* a plausible slip: the rejection of the background task is dropped, setFailed is not called
setFailedSkipped(sess, dsk, s, e) == [err |-> "", sessions |-> sess, disk |-> dsk]

\* a plausible slip: setFailed without its try/catch
setFailedNoCatch(sess, dsk, s, e) ==
  LET r == setStatus(sess, s, "failed", "Processing failed", [k \in {"error"} |-> e])
  IN IF r.err # "" THEN [err |-> r.err, sessions |-> sess, disk |-> dsk]
     ELSE [err |-> "", sessions |-> r.sessions, disk |-> cleanupSessionDir(dsk, s)]

\* a plausible slip: setFailed leaves the chunk directory on disk
setFailedKeepsDir(sess, dsk, s, e) ==
  LET r == setStatus(sess, s, "failed", "Processing failed", [k \in {"error"} |-> e])
  IN IF r.err # "" THEN [err |-> "", sessions |-> sess, disk |-> dsk]
     ELSE [err |-> "", sessions |-> r.sessions, disk |-> dsk]

\* setFailed(sessionId, error): whatever setStatus throws is swallowed
setFailed(sess, dsk, s, e) ==
  LET r == setStatus(sess, s, "failed", "Processing failed", [k \in {"error"} |-> e])
  IN IF r.err # "" THEN [err |-> "", sessions |-> sess, disk |-> dsk]
     ELSE [err |-> "", sessions |-> r.sessions, disk |-> cleanupSessionDir(dsk, s)]

\* a plausible slip: a session is swept as soon as its age reaches the TTL
ExpiredAtTtl(sess) == {s \in DOMAIN sess : Now - sess[s].updatedAt >= sessionTtlMs}

\* cleanup(): the TTL sweep
Expired(sess) == {s \in DOMAIN sess : Now - sess[s].updatedAt > sessionTtlMs}

cleanup(sess, dsk) ==
  [sessions |-> [s \in (DOMAIN sess) \ Expired(sess) |-> sess[s]],
   disk |-> [s \in (DOMAIN dsk) \ Expired(sess) |-> dsk[s]]]

\* a plausible slip: markComplete refuses a session whose chunks are not all there
markCompleteChecked(sess, s) ==
  IF s \notin DOMAIN sess
  THEN [err |-> "SESSION_NOT_FOUND", sessions |-> sess]
  ELSE IF Cardinality(sess[s].receivedChunks) < sess[s].totalChunks
  THEN [err |-> "INCOMPLETE_CHUNKS", sessions |-> sess]
  ELSE IF sess[s].status = "receiving"
  THEN [err |-> "",
        sessions |-> [sess EXCEPT ![s] =
           [@ EXCEPT !.status = "complete", !.message = "Upload complete", !.updatedAt = Now]]]
  ELSE [err |-> "", sessions |-> sess]

\* markComplete(sessionId): receiving -> complete
markComplete(sess, s) ==
  IF s \notin DOMAIN sess
  THEN [err |-> "SESSION_NOT_FOUND", sessions |-> sess]
  ELSE IF sess[s].status = "receiving"
  THEN [err |-> "",
        sessions |-> [sess EXCEPT ![s] =
           [@ EXCEPT !.status = "complete", !.message = "Upload complete", !.updatedAt = Now]]]
  ELSE [err |-> "", sessions |-> sess]

\* statuses from which startProcessing moves a session to processing
startable == {"receiving", "complete"}

\* a plausible slip: the status is tested but never written
startProcessingNoSet(sess, s, msg) ==
  IF s \notin DOMAIN sess
  THEN [err |-> "SESSION_NOT_FOUND", ret |-> FALSE, sessions |-> sess]
  ELSE [err |-> "", ret |-> sess[s].status \in {"receiving", "complete"}, sessions |-> sess]

\* a plausible slip: a failed session may be started again
startProcessingRetry(sess, s, msg) ==
  IF s \notin DOMAIN sess
  THEN [err |-> "SESSION_NOT_FOUND", ret |-> FALSE, sessions |-> sess]
  ELSE IF sess[s].status \in {"receiving", "complete", "failed"}
  THEN [err |-> "", ret |-> TRUE,
        sessions |-> [sess EXCEPT ![s] =
           [@ EXCEPT !.status = "processing", !.message = msg, !.updatedAt = Now]]]
  ELSE [err |-> "", ret |-> FALSE, sessions |-> sess]

\* startProcessing(sessionId, message?): compare-and-set to processing
startProcessing(sess, s, msg) ==
  IF s \notin DOMAIN sess
  THEN [err |-> "SESSION_NOT_FOUND", ret |-> FALSE, sessions |-> sess]
  ELSE IF sess[s].status \in startable
  THEN [err |-> "", ret |-> TRUE,
        sessions |-> [sess EXCEPT ![s] =
           [@ EXCEPT !.status = "processing", !.message = msg, !.updatedAt = Now]]]
  ELSE [err |-> "", ret |-> FALSE, sessions |-> sess]

\* ------------------------------------------------------------ FileStoreService
\* createHash('sha256').update(data).digest('hex'): a collision-free digest, lower case
Sha256Hex(data) == [digest |-> <<"sha256", data>>, upper |-> FALSE, hex64 |-> TRUE]

toLowerCase(hex) == [hex EXCEPT !.upper = FALSE]

\* sanitizeFileName(fileName)
sanitizeFileName(fileName) ==
  CASE fileName = "../f.bin" -> "f.bin"     \* basename
    [] fileName = ".." -> "unnamed"         \* nothing left after trimming dots
    [] OTHER -> fileName

\* <FILE_STORAGE_DIR>/<YYYY>/<MM>/<DD>/<sessionId>-<sanitized>; the clock stays within one day
StoredPath(s, fileName) == <<s, sanitizeFileName(fileName)>>

\* a plausible slip: the destination is written whether or not it exists
storeFileOverwrites(sess, dsk, stg, s, fileName, expectedSize, expectedSha256) ==
  LET r == reassemble(sess, dsk, s)
      fail(code, msg, d) == [err |-> code, msg |-> msg, reasm |-> r.err, disk |-> d,
                             storage |-> stg, storedPath |-> <<>>, storedSize |-> 0]
  IN IF r.err # "" THEN fail(r.err, r.msg, r.disk)
     ELSE IF Len(r.data) # expectedSize
     THEN fail("SIZE_MISMATCH", <<"Expected", expectedSize, "bytes, got", Len(r.data)>>, r.disk)
     ELSE IF Len(r.data) > maxFileSizeBytes
     THEN fail("FILE_TOO_LARGE", <<"File size", Len(r.data), "exceeds max">>, r.disk)
     ELSE IF Sha256Hex(r.data) # toLowerCase(expectedSha256)
     THEN fail("SHA256_MISMATCH", <<"Expected SHA256", expectedSha256>>, r.disk)
     ELSE [err |-> "", msg |-> <<>>, reasm |-> "", disk |-> r.disk,
           storage |-> With(stg, StoredPath(s, fileName), r.data),
           storedPath |-> StoredPath(s, fileName), storedSize |-> Len(r.data)]

\* a plausible slip: the size limit is tested before the expected size
storeFileLimitFirst(sess, dsk, stg, s, fileName, expectedSize, expectedSha256) ==
  LET r == reassemble(sess, dsk, s)
      fail(code, msg, d) == [err |-> code, msg |-> msg, reasm |-> r.err, disk |-> d,
                             storage |-> stg, storedPath |-> <<>>, storedSize |-> 0]
  IN IF r.err # "" THEN fail(r.err, r.msg, r.disk)
     ELSE IF Len(r.data) > maxFileSizeBytes
     THEN fail("FILE_TOO_LARGE", <<"File size", Len(r.data), "exceeds max">>, r.disk)
     ELSE IF Len(r.data) # expectedSize
     THEN fail("SIZE_MISMATCH", <<"Expected", expectedSize, "bytes, got", Len(r.data)>>, r.disk)
     ELSE IF Sha256Hex(r.data) # toLowerCase(expectedSha256)
     THEN fail("SHA256_MISMATCH", <<"Expected SHA256", expectedSha256>>, r.disk)
     ELSE IF StoredPath(s, fileName) \in DOMAIN stg
     THEN fail("FILE_EXISTS", <<"File already stored at", StoredPath(s, fileName)>>, r.disk)
     ELSE [err |-> "", msg |-> <<>>, reasm |-> "", disk |-> r.disk,
           storage |-> With(stg, StoredPath(s, fileName), r.data),
           storedPath |-> StoredPath(s, fileName), storedSize |-> Len(r.data)]

\* storeFile(sessionId, fileName, expectedSize, expectedSha256, sessionStore)
storeFile(sess, dsk, stg, s, fileName, expectedSize, expectedSha256) ==
  LET r == reassemble(sess, dsk, s)
      fail(code, msg, d) == [err |-> code, msg |-> msg, reasm |-> r.err, disk |-> d,
                             storage |-> stg, storedPath |-> <<>>, storedSize |-> 0]
  IN IF r.err # "" THEN fail(r.err, r.msg, r.disk)
     ELSE IF Len(r.data) # expectedSize
     THEN fail("SIZE_MISMATCH", <<"Expected", expectedSize, "bytes, got", Len(r.data)>>, r.disk)
     ELSE IF Len(r.data) > maxFileSizeBytes
     THEN fail("FILE_TOO_LARGE", <<"File size", Len(r.data), "exceeds max">>, r.disk)
     ELSE IF Sha256Hex(r.data) # toLowerCase(expectedSha256)
     THEN fail("SHA256_MISMATCH", <<"Expected SHA256", expectedSha256>>, r.disk)
     ELSE IF StoredPath(s, fileName) \in DOMAIN stg
     THEN fail("FILE_EXISTS", <<"File already stored at", StoredPath(s, fileName)>>, r.disk)
     ELSE [err |-> "", msg |-> <<>>, reasm |-> "", disk |-> r.disk,
           storage |-> With(stg, StoredPath(s, fileName), r.data),
           storedPath |-> StoredPath(s, fileName), storedSize |-> Len(r.data)]

\* ------------------------------------------------------------ services/git
\* An operation is followed to its end in one piece: `fails` names the step that
\* fails, "none" if none does.  g is what earlier operations left behind:
\*   tmp     the directories under os.tmpdir() still there, by kind and session
\*   refs    the temporary refs refs/relay/<sessionId> still in a repo
\*   remote  the pushes origin has received, by repo and session
\*   ended   the operations that have ended, with the step that failed and the outcome
FsMsg == <<"ENOSPC: no space left on device">>

BundleFailures ==
  {"none", "mkdtemp", "writeFile", "verify", "fetch", "revparse", "push", "updateRef"}

\* applyBundle(repoPath, bundleContent, branch, sessionId, gitEnv): mkdtempSync and
\* writeFileSync before the try; bundle verify, fetch into refs/relay/<sessionId>,
\* rev-parse, push and update-ref -d inside it; rmSync(tmpDir) in its finally
applyBundle(g, repo, s, fails) ==
  LET beforeTry == fails \in {"mkdtemp", "writeFile"}
      fetched == fails \in {"revparse", "push", "updateRef", "none"}
      pushed == fails \in {"updateRef", "none"}
      err == IF beforeTry THEN "Error" ELSE IF fails = "none" THEN "" ELSE "GIT_ERROR"
  IN [err |-> err,
      msg |-> IF beforeTry THEN FsMsg ELSE IF err = "" THEN <<>> ELSE GitMsg("apply-bundle"),
      sha |-> IF err = "" THEN "abc123" ELSE "",
      git |-> [g EXCEPT
         \* the finally runs only once the try block has been entered
         !.tmp = IF fails = "writeFile" THEN @ \cup {<<"relay-bundle-", s>>} ELSE @,
         !.refs = IF fetched /\ fails # "none" THEN @ \cup {<<repo, s>>} ELSE @,
         !.remote = IF pushed THEN @ \cup {<<repo, s>>} ELSE @,
         !.ended = Append(@, [fn |-> "applyBundle", sid |-> s, repo |-> repo,
                              fails |-> fails, err |-> err, pushed |-> pushed])]]

PatchFailures == {"none", "mkdtemp", "writeFile", "am", "am and abort"}

\* applyPatch(repoPath, patchContent, gitEnv): mkdtempSync and writeFileSync before the
\* try; git am inside it, git am --abort (its own failure ignored) in the catch;
\* rmSync(tmpDir) in the finally
applyPatch(g, repo, s, fails) ==
  LET beforeTry == fails \in {"mkdtemp", "writeFile"}
      err == IF beforeTry THEN "Error" ELSE IF fails = "none" THEN "" ELSE "GIT_ERROR"
  IN [err |-> err,
      msg |-> IF beforeTry THEN FsMsg ELSE IF err = "" THEN <<>> ELSE GitMsg("apply-patch"),
      git |-> [g EXCEPT
         !.tmp = IF fails = "writeFile" THEN @ \cup {<<"relay-patch-", s>>} ELSE @,
         !.ended = Append(@, [fn |-> "applyPatch", sid |-> s, repo |-> repo,
                              fails |-> fails, err |-> err, pushed |-> FALSE])]]

PushFailures == {"none", "push", "revparse"}

\* pushBranch(repoPath, branch, gitEnv): git push --force-with-lease, then rev-parse HEAD
pushBranch(g, repo, s, fails) ==
  LET err == IF fails = "none" THEN "" ELSE "GIT_ERROR"
  IN [err |-> err,
      msg |-> IF err = "" THEN <<>> ELSE GitMsg("push"),
      sha |-> IF err = "" THEN "abc123" ELSE "",
      git |-> [g EXCEPT
         !.remote = IF fails # "push" THEN @ \cup {<<repo, s>>} ELSE @,
         !.ended = Append(@, [fn |-> "pushBranch", sid |-> s, repo |-> repo,
                              fails |-> fails, err |-> err, pushed |-> fails # "push"])]]

\* ------------------------------------------------------------ services/crypto
\* config.transportReplayTtlMs and config.transportClockSkewMs, in clock ticks
transportReplayTtlMs == 2
transportClockSkewMs == 1

\* the shortest and the longest nonce validateAndStripReplayMetadata accepts
NonceMinLength == 8
NonceMaxLength == 256

\* JavaScript values of the two metadata fields whose type the code inspects
Undefined == [type |-> "undefined", int |-> FALSE, val |-> 0]
Num(n) == [type |-> "number", int |-> TRUE, val |-> n]
Fraction == [type |-> "number", int |-> FALSE, val |-> 0]     \* a number such as 0.5
Str(n) == [type |-> "string", int |-> FALSE, val |-> [i \in 1 .. n |-> "n"]]

\* metadata.<field>: undefined when the object has no such property
Get(obj, k) == IF k \in DOMAIN obj THEN obj[k] ELSE Undefined

\* Number.isInteger(value)
isInteger(v) == v.type = "number" /\ v.int

\* a plausible slip: the bounds of the window and of the nonce length are exclusive
validateExclusiveBounds(metadata, options) ==
  LET timestampValue == Get(metadata, "timestamp")
      nonceValue == Get(metadata, "nonce")
      fail(msg) == [err |-> "DECRYPTION_FAILED", msg |-> msg, metadata |-> metadata,
                    timestamp |-> 0, nonce |-> <<>>]
  IN IF ~isInteger(timestampValue)
     THEN fail("Missing or invalid encrypted metadata field: timestamp")
     ELSE IF nonceValue.type # "string" \/ Len(nonceValue.val) <= NonceMinLength
               \/ Len(nonceValue.val) >= NonceMaxLength
     THEN fail("Missing or invalid encrypted metadata field: nonce")
     ELSE IF timestampValue.val <= options.nowMs - options.ttlMs
     THEN fail("Encrypted request metadata timestamp is expired")
     ELSE IF timestampValue.val >= options.nowMs + options.clockSkewMs
     THEN fail("Encrypted request metadata timestamp is too far in the future")
     ELSE [err |-> "", msg |-> "",
           metadata |-> Without(Without(metadata, "timestamp"), "nonce"),
           timestamp |-> timestampValue.val, nonce |-> nonceValue.val]

\* validateAndStripReplayMetadata(metadata, options); nowMs is options.nowMs ?? Date.now()
validateAndStripReplayMetadata(metadata, options) ==
  LET timestampValue == Get(metadata, "timestamp")
      nonceValue == Get(metadata, "nonce")
      fail(msg) == [err |-> "DECRYPTION_FAILED", msg |-> msg, metadata |-> metadata,
                    timestamp |-> 0, nonce |-> <<>>]
  IN IF ~isInteger(timestampValue)
     THEN fail("Missing or invalid encrypted metadata field: timestamp")
     ELSE IF nonceValue.type # "string" \/ Len(nonceValue.val) < NonceMinLength
               \/ Len(nonceValue.val) > NonceMaxLength
     THEN fail("Missing or invalid encrypted metadata field: nonce")
     ELSE IF timestampValue.val < options.nowMs - options.ttlMs
     THEN fail("Encrypted request metadata timestamp is expired")
     ELSE IF timestampValue.val > options.nowMs + options.clockSkewMs
     THEN fail("Encrypted request metadata timestamp is too far in the future")
     ELSE [err |-> "", msg |-> "",
           metadata |-> Without(Without(metadata, "timestamp"), "nonce"),
           timestamp |-> timestampValue.val, nonce |-> nonceValue.val]

\* ---- configurations (loadConfig)
ServerKeyV1 == [length |-> 32, id |-> "K1"]            \* ENCRYPTION_KEY
ServerKeyV2 == [keyId |-> "k1", privateKey |-> "P1"]   \* TRANSPORT_KEY_ID, TRANSPORT_PRIVATE_KEY_PEM
ApiKey == "secret"                                     \* API_KEY

V1Config == [apiKey |-> ApiKey, transportCryptoMode |-> "v1",
             encryptionKey |-> ServerKeyV1, transportV2Key |-> Undefined]
CompatConfig == [apiKey |-> ApiKey, transportCryptoMode |-> "compat",
                 encryptionKey |-> ServerKeyV1, transportV2Key |-> ServerKeyV2]
V2Config == [apiKey |-> ApiKey, transportCryptoMode |-> "v2",
             encryptionKey |-> Undefined, transportV2Key |-> ServerKeyV2]

\* in mode v2 ENCRYPTION_KEY is optional: it may still be set
LoadedConfigs == {V1Config, CompatConfig, V2Config, [V2Config EXCEPT !.encryptionKey = ServerKeyV1]}

\* ------------------------------------------------------------ initial state
NoLog == [t |-> 0, f |-> FALSE]
NoGit == [tmp |-> {}, refs |-> {}, remote |-> {}, ended |-> <<>>]
NoOutput == [called |-> FALSE, err |-> "", data |-> <<>>]
NoCall == [fn |-> "", done |-> FALSE]
NoRequest ==
  [apiKey |-> "", gameData |-> Undefined, ran |-> <<>>, code |-> 0, error |-> "",
   msg |-> "", body |-> NoDetails, binaryData |-> Undefined, transportVersion |-> ""]

\* the session store, the disk and the lock table after construction
InitStore ==
  /\ sessions = [s \in {} |-> 0]
  /\ disk = [s \in {} |-> 0]
  /\ storage = [p \in {} |-> 0]
  /\ tasks = <<>>
  /\ repoLocks = [k \in Repos |-> 0]
  /\ resolved = {}
  /\ micro = <<>>
  /\ last = Label("init", "", 0, "", 0)
  /\ spLog = [s \in AllSessionIds |-> NoLog]
  /\ sent = <<>>
  /\ out = NoOutput
  /\ git = NoGit

Init ==
  /\ InitStore
  /\ call = NoCall
  /\ handed = NoRequest
  /\ nonceLog = {}
  /\ config = CompatConfig

\* a macrotask runs only once every pending promise reaction has run
Idle == micro = <<>>

\* ------------------------------------------------------------ data router
\* POST /api/data/chunk
PostChunk(s, i, n, d) ==
  /\ Idle
  /\ IF n <= 0 \/ i < 0 \/ i >= n \/ d = EmptyBuffer
     THEN /\ last' = Label("chunk", s, 400, "INVALID_INPUT", 0)
          /\ UNCHANGED <<sessions, disk, spLog>>
     ELSE LET r == storeChunk(sessions, disk, s, i, n, d)
              created == s \notin DOMAIN sessions /\ r.err = ""
          IN /\ sessions' = r.sessions
             /\ disk' = r.disk
             /\ spLog' = IF created THEN [spLog EXCEPT ![s] = NoLog] ELSE spLog
             /\ last' = IF r.err = "" THEN Label("chunk", s, 200, "", r.ret)
                        ELSE Label("chunk", s, StatusCode(r.err), r.err, 0)
  /\ UNCHANGED <<storage, tasks, repoLocks, resolved, micro>>

\* POST /api/data/chunk of the running server
DataChunk(s, i, n, d) == PostChunk(s, i, n, d) /\ UNCHANGED <<sent, out, cryptoVars, git>>

\* POST /api/data/complete
PostComplete(s) ==
  /\ Idle
  /\ LET r == markComplete(sessions, s)
     IN /\ sessions' = r.sessions
        /\ last' = IF r.err = "" THEN Label("complete", s, 202, "", 0)
                   ELSE Label("complete", s, StatusCode(r.err), r.err, 0)
  /\ UNCHANGED <<disk, storage, tasks, repoLocks, resolved, micro, spLog>>

\* POST /api/data/complete of the running server
DataComplete(s) == PostComplete(s) /\ UNCHANGED <<sent, out, cryptoVars, git>>

\* GET /api/data/status/:sessionId
GetStatus(s) ==
  /\ Idle
  /\ last' = IF s \in DOMAIN sessions
             THEN Label("status", s, 200, "", Cardinality(sessions[s].receivedChunks))
             ELSE Label("status", s, 404, "SESSION_NOT_FOUND", 0)
  /\ UNCHANGED <<sessions, disk, storage, tasks, repoLocks, resolved, micro, spLog>>

\* GET /api/data/status/:sessionId of the running server
DataStatus(s) == GetStatus(s) /\ UNCHANGED <<sent, out, cryptoVars, git>>

\* ------------------------------------------------------------ per-repo lock
\* the caller chained behind promise p, if it is still awaiting it
\* a plausible slip: a release wakes the newest waiter of the key, not the caller chained next
WaiterNewest(tk, p) ==
  {u \in 1 .. Len(tk) :
     /\ tk[u].pc = "awaitLock" /\ tk[u].repo = tk[p].repo
     /\ \A v \in 1 .. Len(tk) : (tk[v].pc = "awaitLock" /\ tk[v].repo = tk[p].repo) => v <= u}

Waiter(tk, p) == {u \in 1 .. Len(tk) : tk[u].prev = p /\ tk[u].pc = "awaitLock"}

WaiterSeq(tk, p) == IF Waiter(tk, p) = {} THEN <<>> ELSE <<CHOOSE u \in Waiter(tk, p) : TRUE>>

\* a plausible slip: `await prev` is dropped, fn starts without waiting
SettledAlways(p) == TRUE

Settled(p) == p = 0 \/ p \in resolved

NewTask(kind, s, repo, pc, prev) ==
  [kind |-> kind, sid |-> s, live |-> TRUE, repo |-> repo, pc |-> pc, prev |-> prev,
   reasm |-> "", data |-> <<>>, msg |-> <<>>, storedPath |-> <<>>, storedSize |-> 0,
   authTag |-> ""]

\* the async function has returned: its locals are gone
Returned(task) ==
  [NewTask(task.kind, task.sid, task.repo, "done", 0) EXCEPT !.live = task.live]

\* startProcessing as the finalize routes call it, with the result logged
LogStart(s, r) ==
  IF r.err # "" THEN spLog
  ELSE IF r.ret THEN [spLog EXCEPT ![s].t = @ + 1]
  ELSE [spLog EXCEPT ![s].f = TRUE]

\* a plausible slip: the `if (!started) return` guard is dropped
startedAlways(r) == r.err = ""

\* const started = sessionStore.startProcessing(...); if (!started) { 202; return }
started(r) == r.ret

\* ------------------------------------------------------------ gr router
\* a plausible slip: one promise chain for every repo key
LockPrevGlobal(locks, repoKey) ==
  IF \A k \in DOMAIN locks : locks[k] = 0 THEN 0
  ELSE CHOOSE p \in {locks[k] : k \in DOMAIN locks} :
         \A k \in DOMAIN locks : locks[k] <= p

\* a plausible slip: the handler awaits the task, so it answers only if the lock is free
respondAfterLock(lockFree) == IF lockFree THEN 202 ELSE 0

\* a plausible slip: the map is never found to hold a promise for the key
LockPrevMissed(locks, repoKey) == 0

\* repoLocks.get(repoKey) ?? Promise.resolve()
LockPrev(locks, repoKey) == locks[repoKey]

\* res.status(202).json(...) of an accepted request: sent before processSession is
\* called, whatever the state of the lock
respondAccepted(lockFree) == 202

\* a plausible slip: startProcessing is called before the body is validated
HandleProcessStartsFirst(s, repo) ==
  /\ Idle
  /\ LET r == startProcessing(sessions, s, "Processing")
         id == Len(tasks) + 1
         prev == LockPrev(repoLocks, repo)
     IN /\ sessions' = r.sessions
        /\ spLog' = LogStart(s, r)
        /\ IF r.err # ""
           THEN /\ last' = Label("process", s, StatusCode(r.err), r.err, 0)
                /\ UNCHANGED <<tasks, repoLocks, micro>>
           ELSE IF repo \notin Repos
           THEN /\ last' = Label("process", s, 400, "INVALID_INPUT", 0)
                /\ UNCHANGED <<tasks, repoLocks, micro>>
           ELSE IF started(r)
           THEN /\ last' = Label("process", s, respondAccepted(Settled(prev)), "",
                                 IF r.ret THEN 1 ELSE 0)
                /\ tasks' = Append(tasks, NewTask("gr", s, repo, "awaitLock", prev))
                /\ repoLocks' = [repoLocks EXCEPT ![repo] = id]
                /\ micro' = IF Settled(prev) THEN <<id>> ELSE <<>>
           ELSE /\ last' = Label("process", s, 202, "", 0)
                /\ UNCHANGED <<tasks, repoLocks, micro>>
  /\ UNCHANGED <<disk, storage, resolved, sent, out, cryptoVars, git>>

\* POST /api/gr/process, up to the first await of processSession / withRepoLock
HandleProcess(s, repo) ==
  /\ Idle
  /\ IF repo \notin Repos
     THEN /\ last' = Label("process", s, 400, "INVALID_INPUT", 0)
          /\ UNCHANGED <<sessions, tasks, repoLocks, micro, spLog>>
     ELSE LET r == startProcessing(sessions, s, "Processing")
              id == Len(tasks) + 1
              prev == LockPrev(repoLocks, repo)
          IN /\ sessions' = r.sessions
             /\ spLog' = LogStart(s, r)
             /\ last' = IF r.err # "" THEN Label("process", s, StatusCode(r.err), r.err, 0)
                        ELSE IF started(r)
                        THEN Label("process", s, respondAccepted(Settled(prev)), "",
                                   IF r.ret THEN 1 ELSE 0)
                        ELSE Label("process", s, 202, "", 0)
             /\ IF started(r)
                THEN /\ tasks' = Append(tasks, NewTask("gr", s, repo, "awaitLock", prev))
                     /\ repoLocks' = [repoLocks EXCEPT ![repo] = id]
                     /\ micro' = IF Settled(prev) THEN <<id>> ELSE <<>>
                ELSE UNCHANGED <<tasks, repoLocks, micro>>
  /\ UNCHANGED <<disk, storage, resolved, sent, out, cryptoVars, git>>

\* POST /api/gr/process of the running server: at most MaxTasks tasks are ever scheduled
GRProcess(s, repo) ==
  /\ (repo \in Repos /\ started(startProcessing(sessions, s, "Processing")))
        => Len(tasks) < MaxTasks
  /\ HandleProcess(s, repo)

\* decrypt(encryptedData, key, iv, authTag) of the legacy route: AES-256-GCM, throws
\* when the tag does not authenticate the data
decrypt(data, authTag) ==
  IF authTag = "ok" THEN [err |-> "", msg |-> <<>>]
  ELSE [err |-> "Error", msg |-> <<AuthMessage>>]

\* a plausible slip: what reassemble throws is swallowed and fn goes on to getRepo
EnterLockSwallows(t) ==
  LET r == reassemble(sessions, disk, tasks[t].sid)
  IN /\ tasks[t].pc = "awaitLock"
     /\ disk' = r.disk
     /\ last' = Label("reassemble", tasks[t].sid, 0, r.err, 0)
     /\ tasks' = [tasks EXCEPT ![t].pc = "getRepo",
                               ![t].reasm = IF r.err = "" THEN "ok" ELSE r.err,
                               ![t].data = r.data]
     /\ micro' = Tail(micro)
     /\ UNCHANGED <<sessions, storage, repoLocks, resolved, spLog, sent, out, cryptoVars, git>>

\* withRepoLock: `await prev` has returned; fn() runs reassemble (the legacy route:
\* and decrypt) and starts getRepo
EnterLock(t) ==
  LET r == reassemble(sessions, disk, tasks[t].sid)
      d == IF tasks[t].kind = "patch" /\ r.err = "" THEN decrypt(r.data, tasks[t].authTag)
           ELSE [err |-> "", msg |-> <<>>]
  IN /\ tasks[t].pc = "awaitLock"
     /\ disk' = r.disk
     /\ last' = Label("reassemble", tasks[t].sid, 0, r.err, 0)
     /\ IF r.err = "" /\ d.err = ""
        THEN /\ tasks' = [tasks EXCEPT ![t].pc = "getRepo", ![t].reasm = "ok", ![t].data = r.data]
             /\ micro' = Tail(micro)
             /\ UNCHANGED resolved
        ELSE \* fn throws: finally resolve!(), then the .catch of the route
             /\ tasks' = [tasks EXCEPT ![t].pc = "catch",
                                       ![t].reasm = IF r.err = "" THEN "ok" ELSE r.err,
                                       ![t].msg = IF r.err = "" THEN d.msg ELSE r.msg]
             /\ resolved' = resolved \cup {t}
             /\ micro' = Tail(micro) \o WaiterSeq(tasks, t) \o <<t>>
     /\ UNCHANGED <<sessions, storage, repoLocks, spLog, sent, out, cryptoVars, git>>

\* .catch((err) => sessionStore.setFailed(sessionId, message))
CatchSetFailed(t) ==
  LET r == setFailed(sessions, disk, tasks[t].sid, tasks[t].msg)
  IN /\ tasks[t].pc = "catch"
     /\ sessions' = r.sessions
     /\ disk' = r.disk
     \* an error thrown inside the .catch callback is an unhandled rejection
     /\ tasks' = IF r.err = "" THEN [tasks EXCEPT ![t] = Returned(@)]
                 ELSE [tasks EXCEPT ![t].pc = "unhandled"]
     /\ micro' = Tail(micro)
     /\ last' = Label("setFailed", tasks[t].sid, 0, r.err, 0)
     /\ UNCHANGED <<storage, repoLocks, resolved, spLog, sent, out, cryptoVars, git>>

\* processFileStore after `await storeFile(...)`: setStatus(sessionId, 'stored', ...)
FileSetStored(t) ==
  LET r == setStatus(sessions, tasks[t].sid, "stored", "Stored file",
                     [k \in {"storedPath", "storedSize"} |->
                        IF k = "storedPath" THEN tasks[t].storedPath ELSE tasks[t].storedSize])
  IN /\ tasks[t].pc = "stored"
     /\ sessions' = r.sessions
     /\ last' = Label("setStatus", tasks[t].sid, 0, r.err, 0)
     /\ IF r.err = ""
        THEN /\ tasks' = [tasks EXCEPT ![t] = Returned(@)]
             /\ micro' = Tail(micro)
        ELSE /\ tasks' = [tasks EXCEPT ![t].pc = "catch", ![t].msg = NotFoundMsg(tasks[t].sid)]
             /\ micro' = Tail(micro) \o <<t>>
     /\ UNCHANGED <<disk, storage, repoLocks, resolved, spLog, sent, out, cryptoVars, git>>

\* one promise reaction from the microtask queue
RunMicro ==
  /\ micro # <<>>
  /\ \/ EnterLock(Head(micro))
     \/ CatchSetFailed(Head(micro))
     \/ FileSetStored(Head(micro))

\* a plausible slip: fn's error is passed on to `next`, so the caller awaiting it
\* is rejected with it
ThrowRejectsNext(t, msg) ==
  /\ tasks' = [u \in 1 .. Len(tasks) |->
                 IF u = t \/ u \in Waiter(tasks, t)
                 THEN [tasks[u] EXCEPT !.pc = "catch", !.msg = msg]
                 ELSE tasks[u]]
  /\ resolved' = resolved \cup {t}
  /\ micro' = WaiterSeq(tasks, t) \o <<t>>

\* a plausible slip: resolve() only after a normal return, not in a finally
ThrowNoRelease(t, msg) ==
  /\ tasks' = [tasks EXCEPT ![t].pc = "catch", ![t].msg = msg]
  /\ resolved' = resolved
  /\ micro' = <<t>>

\* fn throws after an await: the lock is released, the next caller resumes, then .catch runs
Throw(t, msg) ==
  /\ tasks' = [tasks EXCEPT ![t].pc = "catch", ![t].msg = msg]
  /\ resolved' = resolved \cup {t}
  /\ micro' = WaiterSeq(tasks, t) \o <<t>>

\* repoManager.getRepo(...) settles (clone/fetch + checkout)
GetRepoDone(t, ok) ==
  /\ Idle
  /\ tasks[t].pc = "getRepo"
  /\ last' = Label("getRepo", tasks[t].sid, 0, IF ok THEN "" ELSE "GIT_ERROR", 0)
  /\ IF ok
     THEN /\ tasks' = [tasks EXCEPT ![t].pc = IF tasks[t].kind = "patch" THEN "applyPatch"
                                             ELSE "applyBundle"]
          /\ UNCHANGED <<resolved, micro>>
     ELSE Throw(t, GitMsg("prepare-repo"))
  /\ UNCHANGED <<sessions, disk, storage, repoLocks, spLog, sent, out, cryptoVars, git>>

CommitUrl(repo, sha) == <<"https://github.com", repo, "commit", sha>>

\* the last git operation of processSession has settled: on success
\* setStatus(sessionId, 'pushed', ...) and the lock is released, else fn throws
PushSettled(t, pc, op, err, msg) ==
  /\ Idle
  /\ tasks[t].pc = pc
  /\ IF err = ""
     THEN LET r == setStatus(sessions, tasks[t].sid, "pushed", <<"Pushed to", tasks[t].repo>>,
                             [k \in {"commitSha", "commitUrl"} |->
                                IF k = "commitSha" THEN "abc123"
                                ELSE CommitUrl(tasks[t].repo, "abc123")])
          IN /\ sessions' = r.sessions
             /\ last' = Label("setStatus", tasks[t].sid, 0, r.err, 0)
             /\ IF r.err = ""
                THEN /\ tasks' = [tasks EXCEPT ![t] = Returned(@)]
                     /\ resolved' = resolved \cup {t}
                     /\ micro' = WaiterSeq(tasks, t)
                ELSE Throw(t, NotFoundMsg(tasks[t].sid))
     ELSE /\ last' = Label(op, tasks[t].sid, 0, err, 0)
          /\ Throw(t, msg)
          /\ UNCHANGED sessions
  /\ UNCHANGED <<disk, storage, repoLocks, spLog>>

\* applyBundle(...) settles, what it leaves behind not followed
ApplyBundleDone(t, ok) ==
  /\ PushSettled(t, "applyBundle", "applyBundle", IF ok THEN "" ELSE "GIT_ERROR",
                 GitMsg("apply-bundle"))
  /\ UNCHANGED <<sent, out, cryptoVars, git>>

\* ------------------------------------------------------------ file router
FileNames == {"", "f.bin"}
FileSizes == 0 .. (maxFileSizeBytes + 1)
ShaInputs ==
  {Sha256Hex(<<"x">>), Sha256Hex(<<"x", "y">>),
   [Sha256Hex(<<"x">>) EXCEPT !.upper = TRUE],
   [Sha256Hex(<<"x">>) EXCEPT !.hex64 = FALSE]}

\* POST /api/file/store, up to the first await of processFileStore (storeFile has none)
FileStore(s, fileName, size, sha256) ==
  /\ Idle
  /\ IF fileName = "" \/ size = 0
     THEN /\ last' = Label("store", s, 400, "INVALID_INPUT", 0)
          /\ UNCHANGED <<sessions, disk, storage, tasks, micro, spLog>>
     ELSE IF size <= 0
     THEN /\ last' = Label("store", s, 400, "INVALID_INPUT", 0)
          /\ UNCHANGED <<sessions, disk, storage, tasks, micro, spLog>>
     ELSE IF size > maxFileSizeBytes
     THEN /\ last' = Label("store", s, 400, "FILE_TOO_LARGE", 0)
          /\ UNCHANGED <<sessions, disk, storage, tasks, micro, spLog>>
     ELSE IF ~sha256.hex64
     THEN /\ last' = Label("store", s, 400, "INVALID_INPUT", 0)
          /\ UNCHANGED <<sessions, disk, storage, tasks, micro, spLog>>
     ELSE LET r == startProcessing(sessions, s, "Processing file")
              f == storeFile(r.sessions, disk, storage, s, fileName, size, sha256)
              id == Len(tasks) + 1
              task == NewTask("file", s, "", IF f.err = "" THEN "stored" ELSE "catch", 0)
          IN /\ started(r) => Len(tasks) < MaxTasks
             /\ sessions' = r.sessions
             /\ spLog' = LogStart(s, r)
             /\ last' = IF r.err # "" THEN Label("store", s, StatusCode(r.err), r.err, 0)
                        ELSE Label("store", s, 202, "", IF r.ret THEN 1 ELSE 0)
             /\ IF started(r)
                THEN /\ tasks' = Append(tasks,
                          [task EXCEPT !.reasm = IF f.reasm = "" THEN "ok" ELSE f.reasm,
                                       !.msg = f.msg, !.storedPath = f.storedPath,
                                       !.storedSize = f.storedSize])
                     /\ disk' = f.disk
                     /\ storage' = f.storage
                     /\ micro' = <<id>>
                ELSE UNCHANGED <<disk, storage, tasks, micro>>
  /\ UNCHANGED <<repoLocks, resolved, sent, out, cryptoVars, git>>

\* ------------------------------------------------------------ patches router (legacy)
AuthTags == {"ok", "bad"}

\* POST /api/patches/complete, up to the first await of processSession / withRepoLock
PatchesComplete(s, repo, authTag) ==
  /\ Idle
  /\ IF repo \notin Repos
     THEN /\ last' = Label("patches", s, 400, "INVALID_INPUT", 0)
          /\ UNCHANGED <<sessions, tasks, repoLocks, micro>>
     ELSE IF s \notin DOMAIN sessions
     THEN /\ last' = Label("patches", s, 404, "SESSION_NOT_FOUND", 0)
          /\ UNCHANGED <<sessions, tasks, repoLocks, micro>>
     ELSE IF Cardinality(sessions[s].receivedChunks) < sessions[s].totalChunks
     THEN /\ last' = Label("patches", s, 400, "INCOMPLETE_CHUNKS", 0)
          /\ UNCHANGED <<sessions, tasks, repoLocks, micro>>
     ELSE LET r == setStatus(sessions, s, "processing", "Processing patch", NoDetails)
              id == Len(tasks) + 1
              prev == LockPrev(repoLocks, repo)
          IN /\ Len(tasks) < MaxTasks
             /\ sessions' = r.sessions
             /\ last' = Label("patches", s, 202, "", 1)
             /\ tasks' = Append(tasks, [NewTask("patch", s, repo, "awaitLock", prev)
                                          EXCEPT !.authTag = authTag])
             /\ repoLocks' = [repoLocks EXCEPT ![repo] = id]
             /\ micro' = IF Settled(prev) THEN <<id>> ELSE <<>>
  /\ UNCHANGED <<disk, storage, resolved, spLog, sent, out, cryptoVars, git>>

\* applyPatch(...) of the legacy processSession settles
PatchEnds(t, fails) ==
  LET r == applyPatch(git, tasks[t].repo, tasks[t].sid, fails)
  IN /\ Idle
     /\ tasks[t].pc = "applyPatch"
     /\ git' = r.git
     /\ last' = Label("applyPatch", tasks[t].sid, 0, r.err, 0)
     /\ IF r.err = ""
        THEN /\ tasks' = [tasks EXCEPT ![t].pc = "push"]
             /\ UNCHANGED <<resolved, micro>>
        ELSE Throw(t, r.msg)
     /\ UNCHANGED <<sessions, disk, storage, repoLocks, spLog, sent, out, cryptoVars>>

\* pushBranch(...) of the legacy processSession settles
PushEnds(t, fails) ==
  LET r == pushBranch(git, tasks[t].repo, tasks[t].sid, fails)
  IN /\ PushSettled(t, "push", "pushBranch", r.err, r.msg)
     /\ git' = r.git
     /\ UNCHANGED <<sent, out, cryptoVars>>

\* applyBundle(...) of processSession settles, what it leaves behind followed
BundleEnds(t, fails) ==
  LET r == applyBundle(git, tasks[t].repo, tasks[t].sid, fails)
  IN /\ PushSettled(t, "applyBundle", "applyBundle", r.err, r.msg)
     /\ git' = r.git
     /\ UNCHANGED <<sent, out, cryptoVars>>

\* ------------------------------------------------------------ timers
\* setInterval(() => this.cleanup(), 60_000)
Sweep ==
  /\ Idle
  /\ LET r == cleanup(sessions, disk)
     IN /\ sessions' = r.sessions
        /\ disk' = r.disk
        /\ spLog' = [s \in DOMAIN spLog |-> IF s \in DOMAIN r.sessions THEN spLog[s] ELSE NoLog]
        /\ tasks' = [t \in 1 .. Len(tasks) |->
                       [tasks[t] EXCEPT !.live = @ /\ tasks[t].sid \in DOMAIN r.sessions]]
  /\ last' = Label("sweep", "", 0, "", 0)
  /\ UNCHANGED <<storage, repoLocks, resolved, micro, sent, out, cryptoVars, git>>

\* the wall clock advances by one tick
Tick ==
  /\ Idle
  /\ DOMAIN sessions # Expired(sessions)   \* some session can still age
  /\ sessions' = [s \in DOMAIN sessions |->
                    [sessions[s] EXCEPT !.updatedAt =
                       IF Now - @ > sessionTtlMs THEN @ ELSE @ - 1]]
  /\ last' = Label("tick", "", 0, "", 0)
  /\ UNCHANGED <<disk, storage, tasks, repoLocks, resolved, micro, spLog, sent, out, cryptoVars, git>>

\* -------------------------------------------------- the per-repo lock on its own
\* Three sessions, each uploaded once and finalized once against one of two repos,
\* with no TTL sweep: every finalize task keeps its session, and up to three callers
\* queue on one repo key.  The second chunk request leaves its upload incomplete, so
\* fn can also throw synchronously.
LockChunkRequests == {<<0, 1, <<"x">>>>, <<0, 2, <<"x">>>>}

\* the one chunk request of a session
LockUpload(s, c) ==
  /\ s \notin DOMAIN sessions
  /\ DataChunk(s, c[1], c[2], c[3])

\* the one finalize request of a session
LockFinalize(s, repo) ==
  /\ s \in DOMAIN sessions
  /\ sessions[s].status = "receiving"
  /\ HandleProcess(s, repo)

NextLock ==
  \/ \E s \in LockSessionIds, c \in LockChunkRequests : LockUpload(s, c)
  \/ \E s \in LockSessionIds, repo \in Repos : LockFinalize(s, repo)
  \/ RunMicro
  \/ \E t \in 1 .. Len(tasks), ok \in BOOLEAN : GetRepoDone(t, ok)
  \/ \E t \in 1 .. Len(tasks), ok \in BOOLEAN : ApplyBundleDone(t, ok)

SpecLock == Init /\ [][NextLock]_vars

\* Node always drains the microtask queue, and every git operation terminates
LockTaskIds == 1 .. Cardinality(LockSessionIds)

SpecLockFair ==
  /\ SpecLock
  /\ WF_vars(RunMicro)
  /\ \A t \in LockTaskIds :
       /\ WF_vars(t <= Len(tasks) /\ \E ok \in BOOLEAN : GetRepoDone(t, ok))
       /\ WF_vars(t <= Len(tasks) /\ \E ok \in BOOLEAN : ApplyBundleDone(t, ok))

\* ------------------------------------------------------------ specification
\* the running server: requests, promise reactions, git completions, the sweep, the clock
\* request bodies a client sends: every well-formed one, and one malformed body
\* for each validation of the route
ChunkRequests ==
  {c \in (0 .. MaxChunks) \X (1 .. MaxChunks) \X Payloads : c[1] < c[2]}
    \cup {<<0, 0, <<"x">>>>, <<1, 1, <<"x">>>>, <<0, 1, EmptyBuffer>>}

FileRequests ==
  {f \in FileNames \X FileSizes \X ShaInputs :
      f[1] # "" /\ f[2] \in 1 .. maxFileSizeBytes /\ f[3].hex64}
    \cup {<<"", 1, Sha256Hex(<<"x">>)>>, <<"f.bin", 0, Sha256Hex(<<"x">>)>>,
          <<"f.bin", maxFileSizeBytes + 1, Sha256Hex(<<"x">>)>>,
          <<"f.bin", 1, [Sha256Hex(<<"x">>) EXCEPT !.hex64 = FALSE]>>}

Next ==
  \/ \E s \in SessionIds, c \in ChunkRequests : DataChunk(s, c[1], c[2], c[3])
  \/ \E s \in SessionIds : DataComplete(s)
  \/ \E s \in SessionIds : DataStatus(s)
  \/ \E s \in SessionIds, repo \in SentRepos \cup {"a"} : GRProcess(s, repo)
  \/ \E s \in SessionIds, f \in FileRequests : FileStore(s, f[1], f[2], f[3])
  \/ RunMicro
  \/ \E t \in 1 .. Len(tasks), ok \in BOOLEAN : GetRepoDone(t, ok)
  \/ \E t \in 1 .. Len(tasks), ok \in BOOLEAN : ApplyBundleDone(t, ok)
  \/ Sweep
  \/ Tick

Spec == Init /\ [][Next]_vars

\* the running server, where Node always drains the microtask queue and every git
\* operation terminates; requests, clock ticks and sweeps may or may not come
TaskIds == 1 .. MaxTasks

SpecFair ==
  /\ Spec
  /\ WF_vars(RunMicro)
  /\ \A t \in TaskIds :
       /\ WF_vars(t <= Len(tasks) /\ \E ok \in BOOLEAN : GetRepoDone(t, ok))
       /\ WF_vars(t <= Len(tasks) /\ \E ok \in BOOLEAN : ApplyBundleDone(t, ok))

\* ------------------------------------------------------------ one upload on its own
\* POST /api/data/chunk requests for one session, each with its own totalChunks,
\* followed by one reassemble(sessionId)
UploadId == "s1"

UploadChunk(i, n, d) ==
  /\ ~out.called
  /\ Len(sent) < MaxSends
  /\ PostChunk(UploadId, i, n, d)
  /\ sent' = Append(sent, [idx |-> i, total |-> n, data |-> d])
  /\ UNCHANGED <<out, cryptoVars, git>>

UploadReassemble ==
  LET r == reassemble(sessions, disk, UploadId)
  IN /\ ~out.called
     /\ UploadId \in DOMAIN sessions
     /\ out' = [called |-> TRUE, err |-> r.err, data |-> r.data]
     /\ disk' = r.disk
     /\ last' = Label("reassemble", UploadId, 0, r.err, 0)
     /\ UNCHANGED <<sessions, storage, tasks, repoLocks, resolved, micro, spLog, sent, cryptoVars, git>>

NextUpload ==
  \/ \E n \in 1 .. MaxUploadChunks : \E i \in 0 .. (n - 1), d \in ChunkData :
        UploadChunk(i, n, d)
  \/ UploadReassemble

SpecUpload == Init /\ [][NextUpload]_vars

\* ------------------------------------------------- FileStoreService.storeFile on its own
\* POST /api/data/chunk requests for one session, followed by one call of
\* storeFile(sessionId, fileName, expectedSize, expectedSha256, sessionStore); the
\* upload can be longer than maxFileSizeBytes, which POST /file/store never lets through
StoreData == {<<"x">>, <<"x", "y">>, <<"x", "y", "x">>, <<"y", "y", "x">>}
StoreShaInputs ==
  {Sha256Hex(d) : d \in StoreData} \cup {[Sha256Hex(d) EXCEPT !.upper = TRUE] : d \in StoreData}
StoreSizes == 0 .. (maxFileSizeBytes + 1)
StoreTotals == 1 .. (maxFileSizeBytes + 1)     \* uploads of one-byte chunks

StoreChunk(i, n, d) ==
  /\ ~out.called
  /\ PostChunk(UploadId, i, n, d)
  /\ UNCHANGED <<sent, out, cryptoVars, git>>

StoreFileCall(fileName, expectedSize, expectedSha256) ==
  LET r == reassemble(sessions, disk, UploadId)
      f == storeFile(sessions, disk, storage, UploadId, fileName, expectedSize, expectedSha256)
  IN /\ ~out.called
     /\ UploadId \in DOMAIN sessions
     /\ out' = [called |-> TRUE, fn |-> "storeFile", reasm |-> r.err, data |-> r.data,
                expectedSize |-> expectedSize, expectedSha256 |-> expectedSha256,
                before |-> storage, err |-> f.err, storedPath |-> f.storedPath,
                storedSize |-> f.storedSize]
     /\ disk' = f.disk
     /\ storage' = f.storage
     /\ last' = Label("storeFile", UploadId, 0, f.err, 0)
     /\ UNCHANGED <<sessions, tasks, repoLocks, resolved, micro, spLog, sent, cryptoVars, git>>

NextStore ==
  \/ \E n \in StoreTotals : \E i \in 0 .. (n - 1), d \in ChunkData : StoreChunk(i, n, d)
  \/ \E z \in StoreSizes, h \in StoreShaInputs : StoreFileCall("f.bin", z, h)

SpecStore == Init /\ [][NextStore]_vars

\* ------------------------------------------------- the git operations followed
\* Two sessions uploaded and finalized through /gr/process and through the legacy
\* /patches/complete against one repo, no TTL sweep; every git operation ends with
\* any of its steps failing, and what it leaves behind is kept.
GitSessionIds == {"s1", "s2"}

NextGit ==
  \/ \E s \in GitSessionIds, c \in LockChunkRequests : LockUpload(s, c)
  \/ \E s \in GitSessionIds, repo \in SentRepos \cup {"a"} : GRProcess(s, repo)
  \/ \E s \in GitSessionIds, repo \in SentRepos \cup {"a"}, a \in AuthTags :
        PatchesComplete(s, repo, a)
  \/ RunMicro
  \/ \E t \in 1 .. Len(tasks), ok \in BOOLEAN : GetRepoDone(t, ok)
  \/ \E t \in 1 .. Len(tasks), f \in BundleFailures : BundleEnds(t, f)
  \/ \E t \in 1 .. Len(tasks), f \in PatchFailures : PatchEnds(t, f)
  \/ \E t \in 1 .. Len(tasks), f \in PushFailures : PushEnds(t, f)

SpecGit == Init /\ [][NextGit]_vars

\* ------------------------------------------------- the TTL sweep with two sessions
\* Two sessions uploaded and finalized through /gr/process while the clock runs and
\* the sweep fires, so that a sweep can find one session expired and the other not.
SweepSessionIds == {"s1", "s2"}

NextSweep ==
  \/ \E s \in SweepSessionIds : DataChunk(s, 0, 1, <<"x">>)
  \/ \E s \in SweepSessionIds, repo \in SentRepos : GRProcess(s, repo)
  \/ RunMicro
  \/ \E t \in 1 .. Len(tasks), ok \in BOOLEAN : GetRepoDone(t, ok)
  \/ \E t \in 1 .. Len(tasks), ok \in BOOLEAN : ApplyBundleDone(t, ok)
  \/ Sweep
  \/ Tick

SpecSweep == Init /\ [][NextSweep]_vars

\* ---------------------------------------------- one session finalized on its own
\* One session, uploaded with any chunk requests of up to MaxUploadChunks chunks,
\* marked complete or not, and finalized through either route, with no TTL sweep.
NextFinalize ==
  \/ \E n \in 1 .. MaxUploadChunks : \E i \in 0 .. (n - 1) :
        DataChunk(UploadId, i, n, <<"x">>)
  \/ DataComplete(UploadId)
  \/ \E repo \in SentRepos : HandleProcess(UploadId, repo)
  \/ \E f \in FileRequests : FileStore(UploadId, f[1], f[2], f[3])
  \/ RunMicro
  \/ \E t \in 1 .. Len(tasks), ok \in BOOLEAN : GetRepoDone(t, ok)
  \/ \E t \in 1 .. Len(tasks), ok \in BOOLEAN : ApplyBundleDone(t, ok)

SpecFinalize == Init /\ [][NextFinalize]_vars

\* ---- the plaintext frame: metadataLen(4) | metadata JSON | binary data
\* A text or a buffer is a sequence of tokens: the braces and the members of a JSON
\* object, a JSON literal that is no object, or one byte of binary data.
OpenBrace == [t |-> "{", k |-> "", v |-> 0]
CloseBrace == [t |-> "}", k |-> "", v |-> 0]
Member(k, v) == [t |-> "member", k |-> k, v |-> v]
Literal(x) == [t |-> x, k |-> "", v |-> 0]          \* "null", "[]"
Byte(b) == [t |-> "byte", k |-> "", v |-> b]

\* Buffer of binary data <-> the bytes of a chunk
ToBuffer(data) == [i \in 1 .. Len(data) |-> Byte(data[i])]
FromBuffer(buf) == [i \in 1 .. Len(buf) |-> buf[i].v]

\* JSON.parse(text): an object, a value that is no object, or a SyntaxError
JsonParse(text) ==
  IF Len(text) >= 2 /\ text[1].t = "{" /\ text[Len(text)].t = "}"
       /\ \A i \in 2 .. (Len(text) - 1) : text[i].t = "member"
  THEN [throws |-> "", kind |-> "object",
        value |-> [k \in {text[i].k : i \in 2 .. (Len(text) - 1)} |->
                     text[CHOOSE i \in 2 .. (Len(text) - 1) :
                            /\ text[i].k = k
                            /\ \A j \in 2 .. (Len(text) - 1) : text[j].k = k => j <= i].v]]
  ELSE IF Len(text) = 1 /\ text[1].t \in {"null", "[]"}
  THEN [throws |-> "", kind |-> text[1].t, value |-> NoDetails]
  ELSE [throws |-> "SyntaxError", kind |-> "", value |-> NoDetails]

\* what a function of this module throws, or returns when `throws` is ""
Thrown(class, msg) ==
  [throws |-> class, msg |-> msg, metadata |-> NoDetails, data |-> Undefined,
   transportVersion |-> "", keyId |-> ""]

\* parsePlaintextFrame(plaintext); plaintext = [length4 |-> the 4-byte length field is
\* there, metadataLength |-> its value, rest |-> the bytes after it]
parsePlaintextFrame(plaintext) ==
  IF ~plaintext.length4
  THEN Thrown("DecryptionError", "Decrypted payload is too small")
  ELSE IF plaintext.metadataLength > Len(plaintext.rest)
  THEN Thrown("DecryptionError", "Invalid metadata length in decrypted payload")
  ELSE LET parsed == JsonParse(SubSeq(plaintext.rest, 1, plaintext.metadataLength))
           data == SubSeq(plaintext.rest, plaintext.metadataLength + 1, Len(plaintext.rest))
       IN IF parsed.throws # ""
          THEN Thrown(parsed.throws, "Unexpected token in JSON")
          ELSE IF parsed.kind # "object"
          THEN Thrown("DecryptionError", "Decrypted metadata is not a valid object")
          ELSE [throws |-> "", msg |-> "", metadata |-> parsed.value,
                data |-> IF Len(data) > 0 THEN data ELSE Undefined,
                transportVersion |-> "", keyId |-> ""]

\* ---- envelopes
\* An envelope (the decoded blob) is kept by what the code reads of it:
\*   size      "empty" (0 bytes), "tiny" (1..4 bytes), "short" (below the fixed part of
\*             its framing), "truncated" (v2: below headerLength + tag + 1), "full"
\*   magic     the first four bytes are "AWR2"
\*   version, kid, ephemeralKey   the v2 header fields
\*   sealed    the key the ciphertext and tag were made with, and whether header, tag
\*             and ciphertext are still as the sender made them
\*   plaintext the frame inside
V2_VERSION == 2

\* isV2Envelope(blob): blob.length > 4 and the magic
isV2Envelope(blob) == blob.size \notin {"empty", "tiny"} /\ blob.magic

\* createDecipheriv('aes-256-gcm', key, iv) ... decipher.final(): the plaintext, or the
\* Error of a failed authentication
Decipher(blob, key) ==
  IF blob.sealed.by = key /\ blob.sealed.intact
  THEN [throws |-> "", plaintext |-> blob.plaintext]
  ELSE [throws |-> "Error", plaintext |-> blob.plaintext]

\* decryptPayloadV1(blob, key)
decryptPayloadV1(blob, key) ==
  IF key.length # 32
  THEN Thrown("DecryptionError", "Invalid encryption key length")
  ELSE IF blob.size # "full"
  THEN Thrown("DecryptionError", "Encrypted payload is too small")
  ELSE LET d == Decipher(blob, key.id)
       IN IF d.throws # "" THEN Thrown(d.throws, AuthMessage)
          ELSE LET f == parsePlaintextFrame(d.plaintext)
               IN IF f.throws # "" THEN f
                  ELSE [f EXCEPT !.transportVersion = "v1"]

\* decryptPayloadV2(blob, config)
decryptPayloadV2(blob, cfg) ==
  IF cfg.transportCryptoMode = "v1"
  THEN Thrown("DecryptionError", "v2 transport is disabled on this server")
  ELSE IF cfg.transportV2Key = Undefined
  THEN Thrown("DecryptionError", "Server is not configured for v2 transport decryption")
  ELSE IF blob.size = "short"
  THEN Thrown("DecryptionError", "v2 encrypted payload is too small")
  ELSE IF blob.version # V2_VERSION
  THEN Thrown("DecryptionError", "Unsupported transport version")
  ELSE IF blob.size = "truncated"
  THEN Thrown("DecryptionError", "Malformed v2 encrypted payload")
  ELSE IF cfg.transportV2Key.keyId # blob.kid
  THEN Thrown("DecryptionError", "Unknown transport key id")
  ELSE IF blob.ephemeralKey # "spki"
  THEN Thrown("Error", "error:1E08010C:DECODER routines::unsupported")  \* createPublicKey
  ELSE LET d == Decipher(blob, cfg.transportV2Key.privateKey)
       IN IF d.throws # "" THEN Thrown(d.throws, AuthMessage)
          ELSE LET f == parsePlaintextFrame(d.plaintext)
               IN IF f.throws # "" THEN f
                  ELSE [f EXCEPT !.transportVersion = "v2", !.keyId = blob.kid]

\* a plausible slip: a v1 envelope is decrypted whenever ENCRYPTION_KEY is set, whatever the mode
decryptPayloadTryAnyMode(blob, cfg) ==
  IF isV2Envelope(blob) THEN decryptPayloadV2(blob, cfg)
  ELSE IF cfg.encryptionKey = Undefined
  THEN Thrown("DecryptionError", "Server is not configured with legacy ENCRYPTION_KEY")
  ELSE decryptPayloadV1(blob, cfg.encryptionKey)

\* the try block of decryptPayload; reading a property of undefined is a TypeError
decryptPayloadTry(blob, cfg) ==
  IF cfg = Undefined
  THEN Thrown("TypeError", "Cannot read properties of undefined")
  ELSE IF isV2Envelope(blob) THEN decryptPayloadV2(blob, cfg)
  ELSE IF cfg.transportCryptoMode = "v2"
  THEN Thrown("DecryptionError", "Legacy v1 transport is disabled on this server")
  ELSE IF cfg.encryptionKey = Undefined
  THEN Thrown("DecryptionError", "Server is not configured with legacy ENCRYPTION_KEY")
  ELSE decryptPayloadV1(blob, cfg.encryptionKey)

\* message.toLowerCase().includes('auth')
includesAuth(msg) == msg = AuthMessage

\* a plausible slip: the catch block is missing, whatever the try block throws goes out
decryptPayloadNoCatch(blob, cfg) ==
  IF blob.size = "empty"
  THEN Thrown("DecryptionError", "Encrypted payload is empty")
  ELSE decryptPayloadTry(blob, cfg)

\* decryptPayload(gameData, config): every error that is no DecryptionError is rethrown as one
decryptPayload(blob, cfg) ==
  IF blob.size = "empty"
  THEN Thrown("DecryptionError", "Encrypted payload is empty")
  ELSE LET r == decryptPayloadTry(blob, cfg)
       IN IF r.throws \in {"", "DecryptionError"} THEN r
          ELSE IF includesAuth(r.msg)
          THEN Thrown("DecryptionError", "Data integrity check failed")
          ELSE Thrown("DecryptionError", "Decryption failed")

\* ---- what a client sends
\* the metadata of a chunk request, with the replay fields that are present
ChunkMeta == [k \in {"sessionId", "chunkIndex", "totalChunks"} |->
                CASE k = "sessionId" -> "s1" [] k = "chunkIndex" -> 0 [] OTHER -> 1]

WithReplay(meta, ts, nonce) ==
  LET m1 == IF ts = Undefined THEN meta ELSE With(meta, "timestamp", ts)
  IN IF nonce = Undefined THEN m1 ELSE With(m1, "nonce", nonce)

\* JSON.stringify(metadata), the members in some fixed order
RECURSIVE Members(_, _)
Members(obj, keys) ==
  IF keys = {} THEN <<>>
  ELSE LET k == CHOOSE x \in keys : TRUE
       IN <<Member(k, obj[k])>> \o Members(obj, keys \ {k})

JsonStringify(obj) == <<OpenBrace>> \o Members(obj, DOMAIN obj) \o <<CloseBrace>>

\* the frame the companion client builds from metadata M and binary data B
Frame(M, B) ==
  [length4 |-> TRUE, metadataLength |-> Len(JsonStringify(M)),
   rest |-> JsonStringify(M) \o ToBuffer(B)]

\* the envelopes the companion client seals for this server
V1Envelope(M, B) ==
  [size |-> "full", magic |-> FALSE, version |-> 0, kid |-> "", ephemeralKey |-> "",
   sealed |-> [by |-> ServerKeyV1.id, intact |-> TRUE], plaintext |-> Frame(M, B)]

V2Envelope(M, B) ==
  [size |-> "full", magic |-> TRUE, version |-> V2_VERSION, kid |-> ServerKeyV2.keyId,
   ephemeralKey |-> "spki",
   sealed |-> [by |-> ServerKeyV2.privateKey, intact |-> TRUE], plaintext |-> Frame(M, B)]

\* metadata with and without the replay fields; binary data of 0, 1 and 2 bytes
SentMetadata == {ChunkMeta, WithReplay(ChunkMeta, Num(Now), Str(NonceMinLength))}
SentBinary == {<<>>, <<"x">>, <<"x", "y">>}

WellFormedEnvelopes ==
  {V1Envelope(M, B) : M \in SentMetadata, B \in SentBinary}
    \cup {V2Envelope(M, B) : M \in SentMetadata, B \in SentBinary}

\* every way one field of a well-formed envelope can be wrong
Damaged(e) ==
  {[e EXCEPT !.size = z] : z \in {"empty", "tiny", "short"}}
    \cup {[e EXCEPT !.sealed.by = "other"], [e EXCEPT !.sealed.intact = FALSE]}
    \cup {[e EXCEPT !.plaintext.length4 = FALSE],
          [e EXCEPT !.plaintext.metadataLength = Len(e.plaintext.rest) + 1],
          [e EXCEPT !.plaintext.metadataLength = @ - 1],
          [e EXCEPT !.plaintext.metadataLength = @ + 1],
          [e EXCEPT !.plaintext.metadataLength = 1, !.plaintext.rest = <<Literal("null")>>],
          [e EXCEPT !.plaintext.metadataLength = 1, !.plaintext.rest = <<Literal("[]")>>]}
    \cup (IF e.magic
          THEN {[e EXCEPT !.size = "truncated"], [e EXCEPT !.version = 3],
                [e EXCEPT !.kid = "other"], [e EXCEPT !.ephemeralKey = "garbage"]}
          ELSE {})

\* an empty blob has no first four bytes
Envelopes ==
  WellFormedEnvelopes
    \cup {d \in UNION {Damaged(e) : e \in WellFormedEnvelopes} : ~(d.size = "empty" /\ d.magic)}

\* ------------------------------------------------------------ createApp: the /api pipeline
\* req.headers['x-server-key']: the configured key, another key, or no header at all
NoHeader == "(no x-server-key header)"
ApiKeyHeaders == {ApiKey, "wrong", NoHeader}

\* the global error handler
ErrorHandler(thrown) ==
  CASE thrown.throws = "UnauthorizedError" -> [code |-> 401, error |-> "UNAUTHORIZED"]
    [] thrown.throws = "DecryptionError" -> [code |-> 400, error |-> "DECRYPTION_FAILED"]
    [] OTHER -> [code |-> 500, error |-> "INTERNAL_ERROR"]

\* a plausible slip: only a header that is present is compared
AuthMiddlewareHeaderOptional(req, cfg) ==
  IF req.apiKey # NoHeader /\ req.apiKey # cfg.apiKey
  THEN Thrown("UnauthorizedError", "Unauthorized")
  ELSE Thrown("", "")

\* the auth middleware for /api/*
AuthMiddleware(req, cfg) ==
  IF req.apiKey # cfg.apiKey THEN Thrown("UnauthorizedError", "Unauthorized")
  ELSE Thrown("", "")

\* the second argument of the decryptPayload call.  The call site passes
\* config.encryptionKey (a Buffer, or undefined in mode v2 without ENCRYPTION_KEY),
\* where decryptPayload reads transportCryptoMode, encryptionKey and transportV2Key
\* of its argument, none of which a Buffer has.  Both the call as it is written and
\* the call as the signature of decryptPayload demands it are kept.
BufferAsConfig ==
  [apiKey |-> "", transportCryptoMode |-> "", encryptionKey |-> Undefined,
   transportV2Key |-> Undefined]

DecryptArgs(cfg) ==
  {cfg, IF cfg.encryptionKey = Undefined THEN Undefined ELSE BufferAsConfig}

\* the decrypt middleware for /api/*: what it hands on (req.body, req.binaryData) or
\* the error it passes to next()
DecryptMiddleware(req, arg) ==
  IF req.method \in {"GET", "HEAD"} \/ ~req.hasGameData
  THEN [throws |-> "", msg |-> "", called |-> FALSE, body |-> req.body,
        binaryData |-> Undefined, transportVersion |-> ""]
  ELSE LET d == decryptPayload(req.gameData, arg)
       IN IF d.throws = ""
          THEN [throws |-> "", msg |-> "", called |-> TRUE, body |-> d.metadata,
                binaryData |-> d.data, transportVersion |-> d.transportVersion]
          ELSE [throws |-> "DecryptionError",
                msg |-> IF d.throws = "DecryptionError" THEN d.msg
                        ELSE "Failed to decrypt request payload",
                called |-> TRUE, body |-> NoDetails, binaryData |-> Undefined,
                transportVersion |-> ""]

\* the routers mounted under /api/data, called with what the middleware handed on
MissingFields(op) ==
  /\ Idle
  /\ last' = Label(op, "", 400, "INVALID_INPUT", 0)
  /\ UNCHANGED <<sessions, disk, storage, tasks, repoLocks, resolved, micro, spLog>>

Route(req, body, binaryData) ==
  CASE req.path = "chunk" ->
         IF {"sessionId", "chunkIndex", "totalChunks"} \subseteq DOMAIN body
         THEN PostChunk(body.sessionId, body.chunkIndex, body.totalChunks,
                        IF binaryData = Undefined THEN EmptyBuffer
                        ELSE FromBuffer(binaryData))
         ELSE MissingFields("chunk")
    [] req.path = "complete" ->
         IF "sessionId" \in DOMAIN body THEN PostComplete(body.sessionId)
         ELSE MissingFields("complete")
    [] OTHER -> GetStatus(req.sessionId)

\* a request refused by a middleware: the error handler answers, no route runs
Refuse(req, ran, thrown) ==
  /\ Idle
  /\ handed' = [apiKey |-> req.apiKey,
                gameData |-> IF Len(ran) = 2 THEN req.gameData ELSE Undefined,
                ran |-> ran, code |-> ErrorHandler(thrown).code,
                error |-> ErrorHandler(thrown).error, msg |-> thrown.msg,
                body |-> NoDetails, binaryData |-> Undefined, transportVersion |-> ""]
  /\ last' = Label(ran[Len(ran)], "", ErrorHandler(thrown).code, ErrorHandler(thrown).error, 0)
  /\ UNCHANGED <<sessions, disk, storage, tasks, repoLocks, resolved, micro, spLog,
                 nonceLog>>

\* one request to /api/data/*, through auth, decryption and its route
ApiRequest(req) ==
  \E arg \in DecryptArgs(config) :
    LET a == AuthMiddleware(req, config)
        d == DecryptMiddleware(req, arg)
    IN /\ IF a.throws # "" THEN Refuse(req, <<"auth">>, a)
          ELSE IF d.throws # "" THEN Refuse(req, <<"auth", "decrypt">>, d)
          ELSE /\ Route(req, d.body, d.binaryData)
               /\ handed' = [apiKey |-> req.apiKey,
                             gameData |-> IF d.called THEN req.gameData ELSE Undefined,
                             ran |-> IF d.called THEN <<"auth", "decrypt", "route">>
                                     ELSE <<"auth", "route">>,
                             code |-> last'.code, error |-> last'.err, msg |-> "",
                             body |-> d.body, binaryData |-> d.binaryData,
                             transportVersion |-> d.transportVersion]
               /\ nonceLog' = IF d.transportVersion = "v2" /\ "nonce" \in DOMAIN d.body
                              THEN nonceLog \cup {d.body.nonce.val} ELSE nonceLog
       /\ UNCHANGED <<sent, out, call, config, git>>

\* the requests a client sends: every envelope as a chunk upload with the right key
\* header; under every key header a well-formed envelope to /chunk and to /complete,
\* a body without gameData, a body whose gameData is the empty string, a status poll
PlainBody == [hasGameData |-> FALSE, gameData |-> Undefined, body |-> ChunkMeta]
EmptyGameData == [hasGameData |-> FALSE, gameData |-> Undefined, body |-> [gameData |-> ""]]
Encrypted(e) == [hasGameData |-> TRUE, gameData |-> e, body |-> NoDetails]

\* the envelopes sent to the server: the well-formed ones, and the one-byte upload
\* damaged in every way
ApiEnvelopes ==
  WellFormedEnvelopes
    \cup {d \in UNION {Damaged(e) : e \in {V1Envelope(M, <<"x">>) : M \in SentMetadata}
                                     \cup {V2Envelope(M, <<"x">>) : M \in SentMetadata}} :
            ~(d.size = "empty" /\ d.magic)}

ApiRequests ==
  {[apiKey |-> ApiKey, method |-> "POST", path |-> "chunk", sessionId |-> "",
    payload |-> Encrypted(e)] : e \in ApiEnvelopes}
    \cup {[apiKey |-> k, method |-> "POST", path |-> "chunk", sessionId |-> "",
           payload |-> Encrypted(e)] : k \in ApiKeyHeaders, e \in WellFormedEnvelopes}
    \cup {[apiKey |-> k, method |-> "POST", path |-> p, sessionId |-> "", payload |-> b] :
            k \in ApiKeyHeaders, p \in {"chunk", "complete"}, b \in {PlainBody, EmptyGameData}}
    \cup {[apiKey |-> k, method |-> "POST", path |-> "complete", sessionId |-> "",
           payload |-> Encrypted(e)] : k \in ApiKeyHeaders, e \in WellFormedEnvelopes}
    \cup {[apiKey |-> k, method |-> "GET", path |-> "status", sessionId |-> "s1",
           payload |-> p] : k \in ApiKeyHeaders, p \in {PlainBody, Encrypted(V1Envelope(ChunkMeta, <<>>))}}

InitApi ==
  /\ InitStore
  /\ call = NoCall
  /\ handed = NoRequest
  /\ nonceLog = {}
  /\ config \in LoadedConfigs

NextApi ==
  \E r \in ApiRequests :
    ApiRequest([apiKey |-> r.apiKey, method |-> r.method, path |-> r.path,
                sessionId |-> r.sessionId, hasGameData |-> r.payload.hasGameData,
                gameData |-> r.payload.gameData, body |-> r.payload.body])

SpecApi == InitApi /\ [][NextApi]_vars

\* -------------------------------------------- the functions of services/crypto on their own
\* One call of one exported function, its arguments drawn from the sets below.
ReplayNow == {Now, Now + 3}
ReplayOptions ==
  {[ttlMs |-> t, clockSkewMs |-> c, nowMs |-> n] :
     t \in {0, transportReplayTtlMs}, c \in {0, transportClockSkewMs}, n \in ReplayNow}

\* timestamp values: missing, ill-typed, and every integer around the window
ReplayTimestamps ==
  {Undefined, Fraction, Str(1)}
    \cup {Num(t) : t \in (Now - transportReplayTtlMs - 1) .. (Now + 3 + transportClockSkewMs + 1)}

\* nonce values: missing, ill-typed, and strings around both length bounds
ReplayNonces ==
  {Undefined, Num(12345678)}
    \cup {Str(n) : n \in {0, NonceMinLength - 1, NonceMinLength, NonceMinLength + 1,
                          NonceMaxLength - 1, NonceMaxLength, NonceMaxLength + 1}}

NoResult == [err |-> "pending"]

ReplayCalls ==
  {[fn |-> "validateAndStripReplayMetadata", done |-> FALSE,
    metadata |-> WithReplay(ChunkMeta, ts, nonce), options |-> o, result |-> NoResult] :
     ts \in ReplayTimestamps, nonce \in ReplayNonces, o \in ReplayOptions}

CallValidate ==
  /\ call.fn = "validateAndStripReplayMetadata"
  /\ ~call.done
  /\ call' = [call EXCEPT !.done = TRUE,
                          !.result = validateAndStripReplayMetadata(call.metadata, call.options)]
  /\ UNCHANGED <<sessions, disk, storage, tasks, repoLocks, resolved, micro, last, spLog,
                 sent, out, handed, nonceLog, config, git>>

\* the configurations loadConfig returns, and one whose ENCRYPTION_KEY loadConfig
\* would have refused (16 bytes), which decryptPayloadV1 checks again
DecryptConfigs == LoadedConfigs \cup {[V1Config EXCEPT !.encryptionKey.length = 16]}

DecryptCalls ==
  {[fn |-> "decryptPayload", done |-> FALSE, blob |-> e, config |-> c, result |-> NoResult] :
     e \in Envelopes, c \in DecryptConfigs}

CallDecrypt ==
  /\ call.fn = "decryptPayload"
  /\ ~call.done
  /\ call' = [call EXCEPT !.done = TRUE, !.result = decryptPayload(call.blob, call.config)]
  /\ UNCHANGED <<sessions, disk, storage, tasks, repoLocks, resolved, micro, last, spLog,
                 sent, out, handed, nonceLog, config, git>>

InitCrypto ==
  /\ InitStore
  /\ handed = NoRequest
  /\ nonceLog = {}
  /\ config = CompatConfig
  /\ call \in ReplayCalls \cup DecryptCalls

NextCrypto ==
  \/ CallValidate
  \/ CallDecrypt

SpecCrypto == InitCrypto /\ [][NextCrypto]_vars

\* ------------------------------------------------------------ properties
Terminal == {"pushed", "stored", "failed"}

\* the status of a session, "none" while the store has no entry for it
StatusOf(sess, s) == IF s \in DOMAIN sess THEN sess[s].status ELSE "none"

\* the tasks scheduled for the session s now in the store (not for one since swept)
TasksOf(s) == {t \in 1 .. Len(tasks) : tasks[t].sid = s /\ tasks[t].live}

\* C1: of the startProcessing calls made on one session, exactly one returns true:
\* no call has yet returned while the session is still receiving or complete (so the
\* first call on such a session returns true), and true is returned at most once.
C1_ExactlyOneStart ==
  \A s \in SessionIds :
    /\ spLog[s].t <= 1
    /\ StatusOf(sessions, s) \in startable => spLog[s] = NoLog

\* C1 witness: one call returned true and a later call on the same session returned false
C1_Witness == \E s \in SessionIds : spLog[s].t = 1 /\ spLog[s].f

\* C2: startProcessing is a compare-and-set: from receiving or complete it sets
\* processing and returns true; from any other status it returns false and changes nothing.
C2_CompareAndSet ==
  [][\A s \in DOMAIN sessions :
       (last'.op \in {"process", "store"} /\ last'.sid = s /\ last'.code # 400)
         => IF sessions[s].status \in {"receiving", "complete"}
            THEN last'.ret = 1 /\ StatusOf(sessions', s) = "processing"
            ELSE last'.ret = 0 /\ sessions' = sessions]_vars

\* C2 witness: a finalize request found the session failed and startProcessing returned false
C2_Witness ==
  /\ last.op \in {"process", "store"} /\ last.code = 202 /\ last.ret = 0
  /\ StatusOf(sessions, last.sid) = "failed"

\* C3: at most one background finalize task is ever scheduled for a session, and a
\* finalize request for a session that already has its task is answered 202 and
\* schedules nothing.
C3_AtMostOneTask ==
  /\ [](\A t, u \in 1 .. Len(tasks) :
          (tasks[t].sid = tasks[u].sid /\ tasks[t].live /\ tasks[u].live) => t = u)
  /\ [][\A s \in DOMAIN sessions :
          (last'.op \in {"process", "store"} /\ last'.sid = s /\ last'.code # 400
             /\ TasksOf(s) # {})
            => last'.code = 202 /\ tasks' = tasks]_vars

\* C3 witness: a second finalize request got 202 while the session's only task was in flight
C3_Witness ==
  /\ last.op = "process" /\ last.code = 202 /\ last.ret = 0
  /\ Cardinality(TasksOf(last.sid)) = 1
  /\ \E t \in TasksOf(last.sid) : tasks[t].pc = "getRepo"

\* C4: storeChunk on a session that is processing, pushed, stored or failed fails
\* with SESSION_COMPLETED (409).
C4_RejectsAfterStart ==
  [][\A s \in DOMAIN sessions :
       (last'.op = "chunk" /\ last'.sid = s /\ last'.err # "INVALID_INPUT"
          /\ sessions[s].status \in {"processing", "pushed", "stored", "failed"})
         => last'.err = "SESSION_COMPLETED" /\ last'.code = 409]_vars

\* the edges of the status diagram; a removed session has no status any more
DiagramEdge(a, b) ==
  \/ a = b
  \/ b = "none"
  \/ a = "none" /\ b = "receiving"
  \/ a = "receiving" /\ b = "complete"
  \/ a \in {"receiving", "complete"} /\ b = "processing"
  \/ a = "processing" /\ b \in {"pushed", "stored"}
  \/ a \in {"receiving", "complete", "processing"} /\ b = "failed"

\* C5: every change of a session's status follows an edge of the status diagram.
C5_StatusDiagram ==
  [][\A s \in SessionIds :
       DiagramEdge(StatusOf(sessions, s), StatusOf(sessions', s))]_vars

\* C6: a session enters pushed, stored or failed only from processing, and once
\* there its status never changes again.
C6_OneTerminalTransition ==
  [][\A s \in SessionIds :
       LET a == StatusOf(sessions, s)
           b == StatusOf(sessions', s)
       IN /\ (b \in Terminal /\ a # b) => a = "processing"
          /\ (a \in Terminal /\ b # "none") => b = a]_vars

\* the upload is a permutation: every index 0..total-1 sent exactly once, one totalChunks
IsPermutationUpload ==
  /\ Len(sent) >= 1
  /\ Len(sent) = sent[1].total
  /\ \A k \in 1 .. Len(sent) : sent[k].total = sent[1].total
  /\ {sent[k].idx : k \in 1 .. Len(sent)} = 0 .. (sent[1].total - 1)

\* the bytes sent for index i
SentFor(i) == sent[CHOOSE k \in 1 .. Len(sent) : sent[k].idx = i].data

RECURSIVE InOrder(_)
InOrder(n) == IF n = 0 THEN <<>> ELSE InOrder(n - 1) \o SentFor(n - 1)

\* C7: after any permutation of storeChunk calls covering 0..totalChunks-1 once,
\* receivedChunks.size = totalChunks and reassemble returns the chunks concatenated
\* in index order.
C7_PermutationReassembles ==
  IsPermutationUpload =>
    /\ Cardinality(sessions[UploadId].receivedChunks) = sessions[UploadId].totalChunks
    /\ sessions[UploadId].totalChunks = sent[1].total
    /\ out.called => out.err = "" /\ out.data = InOrder(sent[1].total)

\* C7 witness: three chunks with different bytes arrived last index first and were reassembled
C7_Witness ==
  /\ IsPermutationUpload /\ out.called
  /\ Len(sent) = 3 /\ sent[1].idx = 2 /\ sent[2].idx = 0
  /\ sent[1].data # sent[3].data

\* C8: a second storeChunk for an index already received leaves receivedChunks.size
\* unchanged, returns the same count as the call before it for that index, and leaves
\* the second call's bytes on disk.
C8_DuplicateChunk ==
  [][(Len(sent') = Len(sent) + 1 /\ UploadId \in DOMAIN sessions
        /\ sent'[Len(sent')].idx \in sessions[UploadId].receivedChunks)
       => /\ Cardinality(sessions'[UploadId].receivedChunks)
               = Cardinality(sessions[UploadId].receivedChunks)
          /\ last'.ret = Cardinality(sessions[UploadId].receivedChunks)
          /\ disk'[UploadId][sent'[Len(sent')].idx] = sent'[Len(sent')].data
          /\ sent[Len(sent)].idx = sent'[Len(sent')].idx => last'.ret = last.ret]_vars

\* C8 witness: the same index was sent twice with different bytes; the second bytes are on disk
C8_Witness ==
  /\ Len(sent) = 2 /\ sent[1].idx = sent[2].idx /\ sent[1].data # sent[2].data
  /\ disk[UploadId][sent[2].idx] = sent[2].data
  /\ Cardinality(sessions[UploadId].receivedChunks) = 1

\* C9: for every session |receivedChunks| <= totalChunks and every received index
\* lies in [0, totalChunks).
C9_ReceivedWithinTotal ==
  \A s \in DOMAIN sessions :
    /\ Cardinality(sessions[s].receivedChunks) <= sessions[s].totalChunks
    /\ sessions[s].receivedChunks \subseteq 0 .. (sessions[s].totalChunks - 1)

\* C10: reassemble returns bytes only when every index 0..totalChunks-1 has been
\* received; when one is missing it fails with INCOMPLETE_CHUNKS and with no other error.
C10_ReassembleComplete ==
  out.called =>
    IF (0 .. (sessions[UploadId].totalChunks - 1)) \subseteq sessions[UploadId].receivedChunks
    THEN out.err = ""
    ELSE out.err = "INCOMPLETE_CHUNKS"

\* C11: a successful reassemble removes the session's chunk directory and leaves the
\* in-memory session as it was, so getSession still finds it; a failed reassemble
\* removes nothing.
C11_ReassembleFrame ==
  [][(out'.called /\ ~out.called)
       => /\ sessions' = sessions
          /\ UploadId \in DOMAIN sessions'
          /\ IF out'.err = "" THEN UploadId \notin DOMAIN disk'
                             ELSE disk' = disk /\ UploadId \in DOMAIN disk']_vars

\* C11 witness: two chunks were reassembled; the directory is gone, the session is kept
C11_Witness ==
  /\ out.called /\ out.err = "" /\ Len(out.data) = 2
  /\ UploadId \notin DOMAIN disk
  /\ UploadId \in DOMAIN sessions /\ sessions[UploadId].receivedChunks = {0, 1}

\* task t is inside its critical section: fn has started and has not yet completed
InCS(t) == tasks[t].kind = "gr" /\ tasks[t].pc \in {"getRepo", "applyBundle"}

\* task u has called withRepoLock and is still awaiting the promise it chained behind
Waiting(u) == tasks[u].kind = "gr" /\ tasks[u].pc = "awaitLock"

\* C12: for one repo key no two critical sections are in progress at the same time.
C12_NoOverlap ==
  \A t, u \in 1 .. Len(tasks) :
    (InCS(t) /\ InCS(u) /\ tasks[t].repo = tasks[u].repo) => t = u

\* C12 witness: a task is in its critical section while a second caller for the same
\* repo waits behind it
C12_Witness ==
  \E t, u \in 1 .. Len(tasks) :
    /\ InCS(t) /\ Waiting(u) /\ tasks[t].repo = tasks[u].repo
    /\ tasks[u].prev = t /\ u \notin {micro[k] : k \in 1 .. Len(micro)}

\* C13: critical sections of one repo key start in the order in which withRepoLock was
\* called (tasks are numbered in call order): a caller has entered only if every
\* earlier caller for the same key has entered.
C13_Fifo ==
  \A t, u \in 1 .. Len(tasks) :
    (t < u /\ tasks[t].kind = "gr" /\ tasks[u].kind = "gr"
       /\ tasks[t].repo = tasks[u].repo /\ ~Waiting(u))
      => ~Waiting(t)

\* C13 witness: of three callers for one key the first has finished, the second is in
\* its critical section and the third still waits behind the second
C13_Witness ==
  /\ Len(tasks) = 3
  /\ tasks[1].repo = tasks[2].repo /\ tasks[2].repo = tasks[3].repo
  /\ tasks[1].pc = "done" /\ InCS(2) /\ Waiting(3) /\ tasks[3].prev = 2
  /\ micro = <<>>

\* the tasks whose continuation is in the microtask queue
Queued == {micro[k] : k \in 1 .. Len(micro)}

\* C14: locks of distinct repo keys are independent: a caller that is blocked waits
\* behind a caller of its own key that has not yet left its critical section, never
\* behind one of another key.
C14_Independent ==
  \A u \in 1 .. Len(tasks) :
    (Waiting(u) /\ u \notin Queued)
      => /\ tasks[u].prev \in 1 .. (u - 1)
         /\ tasks[tasks[u].prev].repo = tasks[u].repo
         /\ InCS(tasks[u].prev) \/ Waiting(tasks[u].prev)

\* C14 witness: the critical sections for "a/b" and "c/d" are in progress together
\* while a second caller for "a/b" waits
C14_Witness ==
  \E t, u, w \in 1 .. Len(tasks) :
    /\ InCS(t) /\ tasks[t].repo = "a/b"
    /\ InCS(u) /\ tasks[u].repo = "c/d"
    /\ Waiting(w) /\ tasks[w].repo = "a/b" /\ w \notin Queued

\* C15: provided every fn terminates, every caller of withRepoLock eventually enters
\* its critical section, whether the holders before it returned or threw.
C15_LockReleased ==
  \A u \in LockTaskIds :
    (u <= Len(tasks) /\ Waiting(u)) ~> (u <= Len(tasks) /\ ~Waiting(u))

\* C15 witness: a caller has entered its critical section after the holder it had
\* chained behind threw
C15_Witness ==
  \E t, u \in 1 .. Len(tasks) :
    /\ t < u /\ tasks[t].repo = tasks[u].repo
    /\ sessions[tasks[t].sid].status = "failed"
    /\ tasks[t].pc = "done" /\ InCS(u)
    /\ last.op = "reassemble" /\ last.sid = tasks[u].sid
    /\ t \in resolved

\* C16: the step in which an accepted /gr/process request asks for the per-repo lock
\* is the step that answers 202, and it leaves the new task waiting outside fn: the
\* handler answers without waiting for the lock or for the task, whoever holds the lock.
C16_RespondsBeforeLock ==
  [][\A k \in DOMAIN repoLocks :
       repoLocks'[k] # repoLocks[k]
         => /\ last'.op = "process" /\ last'.code = 202 /\ last'.ret = 1
            /\ Len(tasks') = Len(tasks) + 1
            /\ repoLocks'[k] = Len(tasks')
            /\ tasks'[Len(tasks')].pc = "awaitLock"
            /\ tasks'[Len(tasks')].sid = last'.sid
            /\ \A t \in 1 .. Len(tasks) : tasks'[t] = tasks[t]]_vars

\* C16 witness: a request was answered 202 while another task held the lock of its repo
C16_Witness ==
  /\ last.op = "process" /\ last.code = 202 /\ last.ret = 1
  /\ Len(tasks) >= 2 /\ Waiting(Len(tasks)) /\ Len(tasks) \notin Queued
  /\ tasks[Len(tasks)].sid = last.sid
  /\ \E t \in 1 .. (Len(tasks) - 1) : InCS(t) /\ tasks[t].repo = tasks[Len(tasks)].repo

\* the session lacks at least one of the chunks 0..totalChunks-1
MissingChunk(s) ==
  ~((0 .. (sessions[s].totalChunks - 1)) \subseteq sessions[s].receivedChunks)

\* C17: a session finalized while it lacks one of its totalChunks chunks is never
\* pushed or stored, and when it has failed its details.error is
\* "Expected <totalChunks> chunks, received <receivedCount>".
C17_MissingChunkFails ==
  \A s \in DOMAIN sessions :
    MissingChunk(s)
      => /\ sessions[s].status \notin {"pushed", "stored"}
         /\ sessions[s].status = "failed"
              => sessions[s].details.error
                   = IncompleteMsg(sessions[s].totalChunks,
                                   Cardinality(sessions[s].receivedChunks))

\* C18: provided every git and file operation terminates, a session in processing
\* eventually is pushed, stored or failed, or is removed by the TTL sweep.
C18_ProcessingEnds ==
  \A s \in SessionIds :
    (StatusOf(sessions, s) = "processing")
      ~> (StatusOf(sessions, s) \in Terminal \cup {"none"})

\* C18 witness: a background task threw (getRepo failed) and its session was set to failed
C18_Witness ==
  \E s \in DOMAIN sessions :
    /\ sessions[s].status = "failed"
    /\ sessions[s].details.error = GitMsg("prepare-repo")
    /\ last.op = "setFailed" /\ last.sid = s

\* the age of session s
Age(s) == Now - sessions[s].updatedAt

\* C19: a sweep removes exactly the sessions whose age exceeds sessionTtlMs, with
\* their chunk directories, and leaves every other session and its chunks as they
\* were; every other step that creates or changes a session leaves it with age 0, so
\* a session changed within the last sessionTtlMs is not removed.
C19_SweepExactlyExpired ==
  /\ [][last'.op = "sweep"
          => /\ DOMAIN sessions' \subseteq DOMAIN sessions
             /\ \A s \in DOMAIN sessions :
                  IF Age(s) > sessionTtlMs
                  THEN s \notin DOMAIN sessions' /\ s \notin DOMAIN disk'
                  ELSE /\ s \in DOMAIN sessions' /\ sessions'[s] = sessions[s]
                       /\ (s \in DOMAIN disk') = (s \in DOMAIN disk)
                       /\ s \in DOMAIN disk => disk'[s] = disk[s]]_vars
  /\ [][last'.op \notin {"sweep", "tick"}
          => /\ DOMAIN sessions \subseteq DOMAIN sessions'
             /\ \A s \in DOMAIN sessions' :
                  (s \notin DOMAIN sessions \/ sessions'[s] # sessions[s])
                    => sessions'[s].updatedAt = Now]_vars

\* C19 witness: a sweep has removed the session of a task still in flight and has kept
\* a session whose age is exactly sessionTtlMs, with its chunk directory
C19_Witness ==
  /\ last.op = "sweep"
  /\ \E t \in 1 .. Len(tasks) :
       ~tasks[t].live /\ tasks[t].sid \notin DOMAIN sessions /\ tasks[t].pc = "getRepo"
  /\ \E s \in DOMAIN sessions :
       Age(s) = sessionTtlMs /\ s \in DOMAIN disk /\ sessions[s].status = "receiving"

\* the steps taken by a background finalize task
TaskOps == {"reassemble", "getRepo", "applyBundle", "setStatus", "setFailed"}

\* C20: a background task whose session the sweep has removed raises no unhandled
\* error and does not bring the session back: no step of a task adds a session to the
\* store, no rejection is left unhandled, and the .catch of a task ends the task.
C20_ToleratesSweptSession ==
  /\ [](\A t \in 1 .. Len(tasks) : tasks[t].pc # "unhandled")
  /\ [][last'.op \in TaskOps
          => /\ DOMAIN sessions' = DOMAIN sessions
             /\ DOMAIN disk' \subseteq DOMAIN disk
             /\ last'.op = "setFailed"
                  => \E t \in 1 .. Len(tasks) :
                       tasks[t].pc = "catch" /\ tasks'[t].pc = "done"]_vars

\* C20 witness: the session of a task in flight was swept; the task's later step threw
\* SESSION_NOT_FOUND, setFailed swallowed it, the task is over and the session absent
C20_Witness ==
  /\ last.op = "setFailed"
  /\ last.sid \notin DOMAIN sessions
  /\ \E t \in 1 .. Len(tasks) :
       tasks[t].sid = last.sid /\ ~tasks[t].live /\ tasks[t].pc = "done"

\* C21: setFailed(sessionId, error) never throws; for an unknown sessionId it changes
\* nothing and creates no session; for an existing session it sets status failed,
\* records details.error = error, keeps every other detail and every other session,
\* and removes the chunk directory of the session.
C21_SetFailedBestEffort ==
  [][(last'.op = "setFailed" /\ micro # <<>>)
       => LET s == last'.sid
              e == tasks[Head(micro)].msg
          IN /\ last'.err = ""
             /\ tasks'[Head(micro)].pc # "unhandled"
             /\ DOMAIN sessions' = DOMAIN sessions
             /\ IF s \notin DOMAIN sessions
                THEN sessions' = sessions /\ disk' = disk
                ELSE /\ sessions'[s].status = "failed"
                     /\ DOMAIN sessions'[s].details = DOMAIN sessions[s].details \cup {"error"}
                     /\ sessions'[s].details.error = e
                     /\ \A k \in DOMAIN sessions[s].details \ {"error"} :
                          sessions'[s].details[k] = sessions[s].details[k]
                     /\ \A o \in DOMAIN sessions \ {s} : sessions'[o] = sessions[o]
                     /\ s \notin DOMAIN disk'
                     /\ \A o \in DOMAIN disk \ {s} : o \in DOMAIN disk' /\ disk'[o] = disk[o]]_vars

\* C21 witness: setFailed ran on a session that already carried details (commitSha)
\* and kept them next to details.error
C21_Witness ==
  /\ last.op = "setFailed"
  /\ last.sid \in DOMAIN sessions
  /\ sessions[last.sid].status = "failed"
  /\ DOMAIN sessions[last.sid].details = {"commitSha", "commitUrl", "error"}
  /\ sessions[last.sid].details.commitSha = "abc123"

\* C22: markComplete(sessionId) moves a receiving session to complete whether or not
\* all its chunks are present, and changes nothing else of it; for an unknown
\* sessionId it fails with SESSION_NOT_FOUND (404) and creates no session.  The check
\* for completeness is made later, by reassemble: no task ever holds reassembled bytes
\* of a session that lacks a chunk.
C22_MarkCompleteUnchecked ==
  /\ [][last'.op = "complete"
          => LET s == last'.sid
             IN /\ disk' = disk
                /\ IF s \notin DOMAIN sessions
                   THEN /\ last'.code = 404 /\ last'.err = "SESSION_NOT_FOUND"
                        /\ sessions' = sessions
                   ELSE /\ last'.code = 202 /\ last'.err = ""
                        /\ DOMAIN sessions' = DOMAIN sessions
                        /\ sessions'[s].receivedChunks = sessions[s].receivedChunks
                        /\ sessions'[s].totalChunks = sessions[s].totalChunks
                        /\ sessions'[s].details = sessions[s].details
                        /\ sessions'[s].status =
                             IF sessions[s].status = "receiving" THEN "complete"
                             ELSE sessions[s].status]_vars
  /\ [](\A t \in 1 .. Len(tasks) :
          (tasks[t].reasm = "ok" /\ tasks[t].sid \in DOMAIN sessions)
            => ~MissingChunk(tasks[t].sid))

\* C22 witness: a session holding chunk 0 of 2 has just been marked complete (202)
C22_Witness ==
  /\ last.op = "complete" /\ last.code = 202 /\ last.sid = UploadId
  /\ UploadId \in DOMAIN sessions
  /\ sessions[UploadId].status = "complete"
  /\ sessions[UploadId].receivedChunks = {0} /\ sessions[UploadId].totalChunks = 2

C25_ReplayWindow ==
  (call.fn = "validateAndStripReplayMetadata" /\ call.done)
    => LET ts == Get(call.metadata, "timestamp")
           nonce == Get(call.metadata, "nonce")
           o == call.options
           inWindow == /\ ts.type = "number" /\ ts.int
                       /\ o.nowMs - o.ttlMs <= ts.val
                       /\ ts.val <= o.nowMs + o.clockSkewMs
           nonceOk == /\ nonce.type = "string"
                      /\ Len(nonce.val) \in 8 .. 256
       IN /\ (call.result.err = "") = (inWindow /\ nonceOk)
          /\ call.result.err \in {"", "DECRYPTION_FAILED"}
          /\ call.result.err = ""
               => call.result.timestamp = ts.val /\ call.result.nonce = nonce.val

\* C25 witness: a call was accepted with timestamp = now - ttlMs and a nonce of 256
\* characters
C25_Witness ==
  /\ call.fn = "validateAndStripReplayMetadata" /\ call.done
  /\ call.result.err = ""
  /\ call.options.ttlMs = transportReplayTtlMs
  /\ call.result.timestamp = call.options.nowMs - call.options.ttlMs
  /\ Len(call.result.nonce) = 256

\* C27: envelope acceptance follows the configured mode: in mode v2 every v1 envelope
\* (no "AWR2" magic) is rejected with a DecryptionError, in mode v1 every envelope
\* whose first four bytes are "AWR2" is rejected with a DecryptionError, and in mode
\* compat a well-formed envelope of either version is accepted as the version it is.
C27_ModeGate ==
  (call.fn = "decryptPayload" /\ call.done)
    => LET mode == call.config.transportCryptoMode
           blob == call.blob
       IN /\ (mode = "v2" /\ ~blob.magic) => call.result.throws = "DecryptionError"
          /\ (mode = "v1" /\ blob.magic) => call.result.throws = "DecryptionError"
          /\ (mode = "compat" /\ blob \in WellFormedEnvelopes)
               => /\ call.result.throws = ""
                  /\ call.result.transportVersion = IF blob.magic THEN "v2" ELSE "v1"

\* C27 witness: in mode v2 with ENCRYPTION_KEY still set, a well-formed v1 envelope
\* was rejected
C27_Witness ==
  /\ call.fn = "decryptPayload" /\ call.done
  /\ call.config.transportCryptoMode = "v2" /\ call.config.encryptionKey = ServerKeyV1
  /\ call.blob \in WellFormedEnvelopes /\ ~call.blob.magic
  /\ call.result.throws = "DecryptionError"

\* C24: of two v2 requests carrying the same nonce and a timestamp inside the TTL
\* window, the second is not accepted: no route is handed a v2 request whose nonce a
\* route was handed before.
C24_ReplayRejected ==
  [][(handed'.transportVersion = "v2" /\ "nonce" \in DOMAIN handed'.body)
       => handed'.body.nonce.val \notin nonceLog]_vars

Refusable(e, cfg) ==
  \/ e.size # "full"
  \/ e.magic /\ e.version # V2_VERSION
  \/ e.magic /\ cfg.transportV2Key # Undefined /\ e.kid # cfg.transportV2Key.keyId
  \/ e.magic /\ cfg.transportCryptoMode = "v1"
  \/ ~e.magic /\ cfg.transportCryptoMode = "v2"
  \/ ~e.sealed.intact
  \/ e.sealed.by \notin {ServerKeyV1.id, ServerKeyV2.privateKey}
  \/ e.plaintext.rest # <<>> /\ e.plaintext.rest[1].t # "{"

\* C28: every encrypted request that is refused is answered 400 DECRYPTION_FAILED: an
\* envelope that is empty, too short, of an unsupported version, of another kid, of a
\* disabled mode, with a bad tag or with metadata that is no JSON object is refused;
\* what decryptPayload threw was a DecryptionError (the middleware had nothing to
\* replace); and no route runs, so the stores stay as they were.
C28_DecryptionFailed ==
  /\ [](handed.gameData # Undefined /\ Refusable(handed.gameData, config)
          => handed.ran = <<"auth", "decrypt">>)
  /\ [](handed.ran = <<"auth", "decrypt">>
          => /\ handed.code = 400 /\ handed.error = "DECRYPTION_FAILED"
             /\ handed.msg # "Failed to decrypt request payload")
  /\ [][handed'.ran = <<"auth", "decrypt">>
          => UNCHANGED <<sessions, disk, storage, tasks, nonceLog>>]_vars

\* C28 witness: with a session stored, a v2 envelope that is valid but for kid "other"
\* was answered 400 DECRYPTION_FAILED
C28_Witness ==
  /\ "s1" \in DOMAIN sessions
  /\ handed.ran = <<"auth", "decrypt">>
  /\ handed.gameData # Undefined
  /\ handed.gameData.magic /\ handed.gameData.kid = "other"
  /\ handed.gameData.size = "full" /\ handed.gameData.sealed.intact
  /\ config.transportV2Key # Undefined
  /\ handed.code = 400 /\ handed.error = "DECRYPTION_FAILED"
  /\ handed.msg = "Unknown transport key id"

\* C29: a request whose x-server-key header is missing or differs from API_KEY is
\* answered 401 UNAUTHORIZED by the auth middleware alone: neither decryption nor a
\* route runs, and the stores stay as they were.
C29_AuthFirst ==
  [][handed'.apiKey # config.apiKey
       => /\ handed'.ran = <<"auth">>
          /\ handed'.code = 401 /\ handed'.error = "UNAUTHORIZED"
          /\ UNCHANGED <<sessions, disk, storage, tasks, nonceLog>>]_vars

\* C29 witness: with a session stored, a request without the header was answered 401
C29_Witness ==
  /\ "s1" \in DOMAIN sessions
  /\ handed.apiKey = NoHeader
  /\ handed.ran = <<"auth">>
  /\ handed.code = 401 /\ handed.error = "UNAUTHORIZED"

\* C30: storeFile writes the file and returns {storedPath, storedSize} only if the
\* reassembled data has expectedSize bytes, is no longer than maxFileSizeBytes and has
\* the SHA-256 expectedSha256, compared without regard to case; otherwise it fails with
\* SIZE_MISMATCH, FILE_TOO_LARGE or SHA256_MISMATCH, the first of them that applies,
\* and the storage root is as it was.
C30_StoreFileChecks ==
  (out.called /\ out.fn = "storeFile" /\ out.reasm = "")
    => LET data == out.data
           sizeOk == Len(data) = out.expectedSize
           fits == Len(data) <= maxFileSizeBytes
           shaOk == Sha256Hex(data) = [out.expectedSha256 EXCEPT !.upper = FALSE]
       IN /\ out.err = ""
               => /\ sizeOk /\ fits /\ shaOk
                  /\ out.storedPath \notin DOMAIN out.before
                  /\ storage = With(out.before, out.storedPath, data)
                  /\ out.storedSize = Len(data)
          /\ ~sizeOk => out.err = "SIZE_MISMATCH"
          /\ (sizeOk /\ ~fits) => out.err = "FILE_TOO_LARGE"
          /\ (sizeOk /\ fits /\ ~shaOk) => out.err = "SHA256_MISMATCH"
          /\ (sizeOk /\ fits /\ shaOk) => out.err = ""
          /\ out.err # "" => storage = out.before

\* C30 witness: an upload of three bytes, longer than maxFileSizeBytes, was refused
\* with FILE_TOO_LARGE although size and digest matched, and nothing was stored
C30_Witness ==
  /\ out.called /\ out.fn = "storeFile" /\ out.reasm = ""
  /\ Len(out.data) = maxFileSizeBytes + 1
  /\ out.expectedSize = Len(out.data)
  /\ out.expectedSha256 = Sha256Hex(out.data)
  /\ out.err = "FILE_TOO_LARGE"
  /\ storage = out.before

\* the file task a step has just scheduled, as a set of at most one task
NewFileTask ==
  IF Len(tasks') = Len(tasks) + 1 /\ tasks'[Len(tasks')].kind = "file"
  THEN {tasks'[Len(tasks')]} ELSE {}

\* C31: storeFile never overwrites a stored file: no step changes or removes a file
\* of the storage root, a store that succeeds wrote to a path that did not exist,
\* and a store whose size and digest were right but whose path exists fails with
\* FILE_EXISTS, whatever file-store tasks ran before.
C31_NeverOverwrites ==
  /\ [][\A p \in DOMAIN storage : p \in DOMAIN storage' /\ storage'[p] = storage[p]]_vars
  /\ [][\A t \in NewFileTask :
          /\ t.pc = "stored" => t.storedPath \notin DOMAIN storage
          /\ (t.pc = "catch" /\ t.msg[1] = "File already stored at")
                => /\ t.msg[2] \in DOMAIN storage
                   /\ storage' = storage
          /\ (t.pc = "catch" /\ t.reasm = "ok" /\ StoredPath(t.sid, "f.bin") \in DOMAIN storage)
                => t.msg[1] \in {"Expected", "Expected SHA256", "File already stored at"}]_vars

\* C31 witness: the session was swept and uploaded again under the same id, and the
\* second store of the same file name has failed with FILE_EXISTS; the stored file is
\* the first one
C31_Witness ==
  /\ Len(tasks) = 2
  /\ tasks[2].kind = "file" /\ tasks[2].pc = "catch"
  /\ tasks[2].msg = <<"File already stored at", StoredPath("s1", "f.bin")>>
  /\ StoredPath("s1", "f.bin") \in DOMAIN storage

\* C32: a session whose status is pushed, stored or failed has no chunk directory on
\* disk.
C32_NoDirAfterOutcome ==
  \A s \in DOMAIN sessions :
    sessions[s].status \in {"pushed", "stored", "failed"} => s \notin DOMAIN disk

\* the operations of services/git that have ended
Ended == {git.ended[i] : i \in 1 .. Len(git.ended)}

\* C33: an applyBundle whose push succeeded and whose cleanup step update-ref -d
\* failed still returns the pushed sha, and its session is not set to failed.
C33_RefCleanupNonFatal ==
  \A e \in Ended :
    (e.fn = "applyBundle" /\ e.fails = "updateRef")
      => /\ e.pushed
         /\ e.err = ""
         /\ sessions[e.sid].status # "failed"

\* C34: after applyBundle or applyPatch has ended, whether it returned or threw and
\* whichever step failed, no temp directory it created is left under os.tmpdir().
C34_TempDirRemoved ==
  \A e \in Ended :
    e.fn \in {"applyBundle", "applyPatch"}
      => /\ <<"relay-bundle-", e.sid>> \notin git.tmp
         /\ <<"relay-patch-", e.sid>> \notin git.tmp

\* the steps of a task that work on the repo directory <reposDir>/<owner>/<repo>
RepoSteps == {"getRepo", "applyBundle", "applyPatch", "push"}

\* task t holds the lock of its repo key: the promise it chained behind has resolved,
\* it has resumed after `await prev`, and it has not yet resolved its own promise
HoldsLock(t) ==
  /\ Settled(tasks[t].prev)
  /\ tasks[t].pc # "awaitLock"
  /\ t \notin resolved

\* C35: a repo working directory is touched only inside the per-repo critical
\* section: a task that is in getRepo, applyBundle, applyPatch or pushBranch holds the
\* lock of the key owner/repo of the directory it works on, and no other task works
\* on that directory.
C35_MutatedUnderLock ==
  \A t \in 1 .. Len(tasks) :
    tasks[t].pc \in RepoSteps
      => /\ HoldsLock(t)
         /\ \A u \in 1 .. Len(tasks) :
              (tasks[u].pc \in RepoSteps /\ tasks[u].repo = tasks[t].repo) => u = t

\* C35 witness: the legacy task is in applyPatch while the /gr/process task for the
\* same repo, chained behind it, waits for the lock
C35_Witness ==
  \E t, u \in 1 .. Len(tasks) :
    /\ tasks[t].kind = "patch" /\ tasks[t].pc = "applyPatch"
    /\ tasks[u].kind = "gr" /\ tasks[u].pc = "awaitLock"
    /\ tasks[u].repo = tasks[t].repo /\ tasks[u].prev = t
    /\ micro = <<>>

\* the order of the steps of a /gr/process task: from each step to the next, or to
\* the .catch of the route
StepOrder(a, b) ==
  \/ a = b
  \/ a = "awaitLock" /\ b \in {"getRepo", "catch"}
  \/ a = "getRepo" /\ b \in {"applyBundle", "catch"}
  \/ a = "applyBundle" /\ b \in {"done", "catch"}
  \/ a = "catch" /\ b \in {"done", "unhandled"}

\* C36: a /gr/process task runs reassemble, getRepo, applyBundle and setStatus(pushed)
\* in this order; getRepo starts only in the step in which reassemble returned; the
\* task sets its session to pushed only in the step in which applyBundle returned;
\* a task whose step failed runs no later step and its .catch sets the session to
\* failed.
C36_StepsInOrder ==
  [][\A t \in 1 .. Len(tasks) :
       tasks[t].kind = "gr"
         => /\ StepOrder(tasks[t].pc, tasks'[t].pc)
            /\ (tasks[t].pc = "awaitLock" /\ tasks'[t].pc = "getRepo")
                 => /\ last'.op = "reassemble" /\ last'.sid = tasks[t].sid
                    /\ last'.err = "" /\ tasks'[t].reasm = "ok"
            /\ (tasks[t].pc = "awaitLock" /\ tasks'[t].pc = "catch")
                 => last'.op = "reassemble" /\ last'.err # ""
            /\ (tasks[t].pc # "done" /\ tasks'[t].pc = "done" /\ tasks[t].pc # "catch")
                 => /\ tasks[t].pc = "applyBundle"
                    /\ git'.ended[Len(git'.ended)].fn = "applyBundle"
                    /\ git'.ended[Len(git'.ended)].err = ""
                    /\ sessions'[tasks[t].sid].status = "pushed"
            /\ (tasks[t].pc = "catch" /\ tasks'[t].pc # "catch")
                 => /\ tasks'[t].pc = "done"
                    /\ sessions'[tasks[t].sid].status = "failed"
            /\ (last'.op \in {"getRepo", "applyBundle"} /\ last'.sid = tasks[t].sid
                  /\ tasks'[t] # tasks[t])
                 => tasks[t].reasm = "ok"]_vars

\* C36 witness: the upload lacked a chunk, reassemble threw, the session is failed
\* and no git operation has run
C36_Witness ==
  \E t \in 1 .. Len(tasks) :
    /\ tasks[t].kind = "gr" /\ tasks[t].pc = "done"
    /\ last.op = "setFailed" /\ last.sid = tasks[t].sid
    /\ sessions[tasks[t].sid].status = "failed"
    /\ sessions[tasks[t].sid].details.error = IncompleteMsg(2, 1)
    /\ git = NoGit

\* the keys setStatus is given for each outcome
PatchedKeys(status) ==
  CASE status = "pushed" -> {"commitSha", "commitUrl"}
    [] status = "stored" -> {"storedPath", "storedSize"}
    [] status = "failed" -> {"error"}
    [] OTHER -> {}

DetailsMatch(session) ==
  /\ PatchedKeys(session.status) \subseteq DOMAIN session.details
  /\ session.status = "pushed"
       => \E repo \in Repos :
            session.details.commitUrl = CommitUrl(repo, session.details.commitSha)

\* C37: the details of every session hold the keys of its status (pushed: commitSha
\* and commitUrl = https://github.com/<owner>/<repo>/commit/<commitSha>; stored:
\* storedPath and storedSize; failed: error), and a step on a session never removes
\* a key of its details and changes only the keys patched for the new status.
C37_DetailsMatchStatus ==
  /\ [](\A s \in DOMAIN sessions : DetailsMatch(sessions[s]))
  /\ [][\A s \in (DOMAIN sessions) \cap (DOMAIN sessions') :
          \A k \in DOMAIN sessions[s].details :
            /\ k \in DOMAIN sessions'[s].details
            /\ sessions'[s].details[k] # sessions[s].details[k]
                 => /\ k \in PatchedKeys(sessions'[s].status)
                    /\ last'.op \in {"setStatus", "setFailed"}]_vars

\* C37 witness: a session that was pushed by one task and then set failed by a later
\* one has kept its commit next to the error
C37_Witness ==
  \E s \in DOMAIN sessions :
    /\ sessions[s].status = "failed"
    /\ DOMAIN sessions[s].details = {"commitSha", "commitUrl", "error"}

\* the error codes of a body that fails validation
InvalidInput == {"INVALID_INPUT", "FILE_TOO_LARGE"}

\* C38: a POST /gr/process or POST /file/store answered 400 for invalid input leaves
\* the sessions (status, message, details), the stored chunks and files, the repo
\* locks and the background tasks as they were: nothing is started or scheduled.
C38_RejectedLeavesSession ==
  [][(/\ last'.op \in {"process", "store"}
      /\ last'.code = 400
      /\ last'.err \in InvalidInput)
       => UNCHANGED <<sessions, tasks, micro, repoLocks, disk, storage, resolved>>]_vars

\* C38 witness: a fully uploaded session that startProcessing would have started was
\* named by a request with an invalid body and is still not processing
C38_Witness ==
  /\ last.op \in {"process", "store"}
  /\ last.code = 400
  /\ last.err \in InvalidInput
  /\ last.sid \in DOMAIN sessions
  /\ sessions[last.sid].status \in startable
  /\ Cardinality(sessions[last.sid].receivedChunks) = sessions[last.sid].totalChunks
  /\ TasksOf(last.sid) = {}

\* the processSession jobs of the legacy route started for session s
PatchJobs(s) == {t \in 1 .. Len(tasks) : tasks[t].kind = "patch" /\ tasks[t].sid = s}

\* C39: a POST /api/patches/complete for a session for which an earlier request of
\* this route has started processSession schedules no further processSession and
\* leaves the status of the session (processing, pushed or failed) as it is.
C39_OneJobPerSession ==
  [][\A s \in DOMAIN sessions :
       (/\ last'.op = "patches" /\ last'.sid = s /\ last'.code = 202
        /\ PatchJobs(s) # {}
        /\ \A t \in 1 .. Len(tasks) : tasks[t].kind = "patch")
         => /\ tasks' = tasks
            /\ sessions'[s].status = sessions[s].status]_vars

\* task t's fn throws in this step
Throws(t) == tasks[t].pc \notin {"catch", "done", "unhandled"} /\ tasks'[t].pc = "catch"

\* C40: what a holder's fn throws reaches only the holder's own caller: in the step
\* in which a task's fn throws the task releases the lock, every other task is left
\* as it was and the caller chained behind it is resumed; a caller leaves its
\* `await prev` only by running its own fn, whose first statement is reassemble.
C40_FailureIsolated ==
  [][\A t \in 1 .. Len(tasks) :
       /\ Throws(t)
            => /\ t \in resolved'
               /\ \A u \in (1 .. Len(tasks)) \ {t} : tasks'[u] = tasks[u]
               /\ \A u \in Waiter(tasks, t) : \E i \in 1 .. Len(micro') : micro'[i] = u
       /\ (tasks[t].pc = "awaitLock" /\ tasks'[t].pc # "awaitLock")
            => /\ Settled(tasks[t].prev)
               /\ last'.op = "reassemble" /\ last'.sid = tasks[t].sid
               /\ tasks'[t].reasm # ""]_vars

\* C40 witness: the holder's fn threw and its session is failed, and the caller that
\* was queued behind it on the same repo is now inside its own critical section
C40_Witness ==
  \E t, u \in 1 .. Len(tasks) :
    /\ tasks[u].prev = t
    /\ tasks[u].repo = tasks[t].repo
    /\ tasks[u].sid # tasks[t].sid
    /\ tasks[t].pc = "done"
    /\ sessions[tasks[t].sid].status = "failed"
    /\ tasks[u].pc \in RepoSteps

====
